---- MODULE Spec2Model ----
(***************************************************************************)
(* A model of the search-then-RAG pipeline of Suhani_Bansal/:              *)
(*   search_agents.py  MultiSearchAgent.search   (SpecSearch)              *)
(*   scraper.py        WebScraperAgent    (SpecScrapeUrl, SpecScrapeMany)  *)
(*   rag_agent.py      ImprovedRAGAgent          (SpecRag, SpecChunk,      *)
(*                                                SpecQuery, SpecKeyword)  *)
(*   system.py         RobustWebSearchRAGSystem  (SpecPersist, SpecSystem) *)
(*   search_agents.py  the search of one backend (SpecBackend)             *)
(* and of two functions of the other directories:                          *)
(*   fallback_search of Taran_Mohta/ and Vivek_Chandwani/   (SpecFallback) *)
(*   _http of Soham_Mukherjee/Assignment_01/Task-01/        (SpecHttp)     *)
(* Each specification drives one component; the variables of the other     *)
(* components stay at their idle values.                                   *)
(***************************************************************************)
EXTENDS Integers, Sequences, FiniteSets, TLC

(***************************************************************************)
(* Bounds of the model.                                                    *)
(***************************************************************************)
MaxAgents == 2
MaxResults == 2
MaxConcurrent == 2
MaxUrls == 2
MaxManyRetries == 2
MaxTicks == 3
StartTime == 10
MaxWords == 1200
MaxDocWords == 3
MaxBatch == 2
MaxChunks == 4
MaxTopK == 2
MaxQueryChunks == 3
MaxQueryWords == 2
MaxChunkWords == 4
MaxSystemResults == 2
MaxFallbackItems == 2
MaxFallbackUrls == 2
MaxHttpRetries == 3
MaxBackendItems == 2

\* WebScraperAgent.__init__: max_retries: int = 3, rate_limit_delay: float = 1.0
DefaultMaxRetries == 3
RateLimitDelay == 1

URLS == {"a", "b", "c"}
NumResultsChoices == {0, 1, 2, 10}

VARIABLES
    \* MultiSearchAgent
    search_agents,    \* the configured backends, a sequence of source names
    max_concurrent,   \* self.max_concurrent
    num_results,      \* the num_results argument of search
    task_pc,          \* per backend task: "pending", "running", "done"
    semaphore,        \* the value of asyncio.Semaphore(max_concurrent)
    calls,            \* per backend: how often agent.search was called
    raised,           \* per backend: whether agent.search raised
    responses,        \* per backend: what search_with_semaphore returned
    search_response,  \* what MultiSearchAgent.search returned, or NotReturned
    search_completion,  \* the backend tasks in the order in which they ended
    \* WebScraperAgent
    urls,               \* the urls argument of scrape_multiple_urls
    server,             \* per url: how its server answers
    max_retries,        \* self.max_retries
    scrape_concurrent,  \* the max_concurrent argument of scrape_multiple_urls
    now,                \* time.time(), in seconds
    last_request_time,  \* self.last_request_time
    scrape_semaphore,   \* the value of asyncio.Semaphore(max_concurrent)
    tasks,              \* per url: the state of its scrape_url call
    scrape_results,     \* per url: the ScrapedContent of its call, or NoContent
    fetch_starts,       \* the times at which scrape_url calls sent their first request
    completion_order,   \* the tasks in the order in which they returned
    scraped,            \* what scrape_multiple_urls returned, or NotScraped
    \* ImprovedRAGAgent
    chunk_size,         \* self.chunk_size
    chunk_overlap,      \* self.chunk_overlap
    use_embeddings,     \* self.use_embeddings
    document_chunks,    \* self.document_chunks
    embeddings,         \* self.embeddings: None, or a matrix with a row per chunk
    index,              \* self.index: None, or the rows of the FAISS index
    rag_error,          \* what the last call raised, or "none"
    indexable_given,    \* whether the last index_documents call was handed a
                        \* document that passes its filter
    rag_result,         \* the RAGResult of the last query, or NoResult
    result_refs,        \* the positions in document_chunks of the chunk objects
                        \* the last RAGResult holds, in the order of its list
    saved,              \* the file save_index wrote, or NoFile
    loaded,             \* whether load_index has filled this agent
    \* _chunk_text on its own
    text,               \* the words of the text to chunk
    chunked,            \* the chunks _chunk_text returned, or NotChunked
    \* _calculate_keyword_similarity on its own
    kw_query,           \* the words of the query
    kw_chunk,           \* the chunk
    kw_score,           \* the score returned, or NoScore
    \* RobustWebSearchRAGSystem.query_with_rag
    sys_pc,             \* where the call is: "idle", "called", "search",
                        \* "scrape", "index", "retrieve", "done", "raised"
    query_blank,        \* not query.strip()
    search_first,       \* the search_first argument
    sys_search,         \* what multi_search.search returned, or NotReturned
    valid_urls,         \* valid_urls
    scraped_contents,   \* scraped_contents
    sys_stages,         \* the stages that have run, in order
    sys_raised,         \* the message of the exception a stage raised, or "none"
    sys_result,         \* the dict query_with_rag returned, or NoDict
    \* fallback_search
    fb_variant,         \* whose fallback_search: "Taran_Mohta", "Vivek_Chandwani"
    fb_configured,      \* the providers whose client was constructed
    fb_pc,              \* "running", "done", "raised"
    fb_called,          \* the providers called so far, in order
    fb_raws,            \* what the clients of the providers called so far gave
    fb_responses,       \* what the run_..._search / safe_..._search calls returned
    fb_result,          \* the dict fallback_search returned, or NoFallbackResult
    \* _http
    http_retries,       \* the retries argument
    http_pc,            \* "attempting", "sleeping", "returned", "raised"
    http_outcomes,      \* how each attempt made so far ended
    http_waits,         \* the time.sleep calls so far, in tenths of a second
    http_result,        \* "none", "body" (the return value) or "netfail"
    \* one search backend
    be_source,          \* the backend: its source name
    be_status,          \* the HTTP status of the answer, 0 when session.get raised
    be_body,            \* the body of the answer
    be_num_results,     \* the num_results argument
    be_response         \* the SearchResponse search returned, or NoResponse

searchVars == <<search_agents, max_concurrent, num_results, task_pc, semaphore,
                calls, raised, responses, search_response, search_completion>>

scrapeVars == <<urls, server, max_retries, scrape_concurrent, now,
                last_request_time, scrape_semaphore, tasks, scrape_results,
                fetch_starts, completion_order, scraped>>

ragVars == <<chunk_size, chunk_overlap, use_embeddings, document_chunks,
             embeddings, index, rag_error, indexable_given, rag_result, result_refs, saved,
             loaded>>

chunkVars == <<text, chunked>>

keywordVars == <<kw_query, kw_chunk, kw_score>>

systemVars == <<sys_pc, query_blank, search_first, sys_search, valid_urls,
                scraped_contents, sys_stages, sys_raised, sys_result>>

fallbackVars == <<fb_variant, fb_configured, fb_pc, fb_called, fb_raws, fb_responses,
                  fb_result>>

httpVars == <<http_retries, http_pc, http_outcomes, http_waits, http_result>>

backendVars == <<be_source, be_status, be_body, be_num_results, be_response>>

\* the functions modelled on their own
standaloneVars == <<fallbackVars, httpVars, backendVars>>

vars == <<searchVars, scrapeVars, ragVars, chunkVars, keywordVars, systemVars,
          standaloneVars>>

(***************************************************************************)
(* Python helpers.                                                         *)
(***************************************************************************)
Min(a, b) == IF a < b THEN a ELSE b
Max(a, b) == IF a > b THEN a ELSE b

\* a slice that is one element short
Take_OneShort(s, n) == SubSeq(s, 1, Min(n, Len(s)) - 1)

\* s[:n], also for a negative n (which counts from the end)
Take(s, n) ==
    IF n >= 0 THEN SubSeq(s, 1, Min(n, Len(s)))
    ELSE SubSeq(s, 1, Max(Len(s) + n, 0))

Range(s) == {s[i] : i \in 1..Len(s)}

SeqsUpTo(S, n) == UNION {[1..k -> S] : k \in 0..n}

(***************************************************************************)
(* data_models.py                                                          *)
(***************************************************************************)
SearchResult(url, snippet, source) ==
    [url |-> url, snippet |-> snippet, source |-> source]

SearchResponse(success, results, source, total_results) ==
    [success |-> success, results |-> results, source |-> source,
     total_results |-> total_results]

\* a task that has not returned yet
NoResponse == [success |-> FALSE, results |-> <<>>, source |-> "none",
               total_results |-> -1]

\* search has not returned yet
NotReturned == [success |-> FALSE, results |-> <<>>, source |-> <<>>,
                total_results |-> -1]

(***************************************************************************)
(* search_agents.py: the backends.  A backend answers a call with a        *)
(* SearchResponse whose results carry the backend's own source name, or    *)
(* raises.                                                                 *)
(***************************************************************************)
SourceOf(i) ==
    IF i = 1 THEN "duckduckgo"
    ELSE IF i = 2 THEN "wikipedia"
    ELSE "serpapi_google"

\* type(agent).__name__
TypeName(src) ==
    IF src = "duckduckgo" THEN "DuckDuckGoSearchAgent"
    ELSE IF src = "wikipedia" THEN "WikipediaSearchAgent"
    ELSE "SerpApiSearchAgent"

\* len(snippet) of the result a backend gives for a url: the snippets of one
\* page differ between the backends
SnippetLen(src, u) ==
    IF src = "duckduckgo" THEN (IF u = "a" THEN 1 ELSE 0)
    ELSE IF src = "wikipedia" THEN (IF u = "c" THEN 0 ELSE 1)
    ELSE (IF u = "b" THEN 2 ELSE 0)

\* the pages a backend has in its index: any two backends share a page
BackendUrls(src) ==
    IF src = "duckduckgo" THEN {"a", "b"}
    ELSE IF src = "wikipedia" THEN {"b", "c"}
    ELSE {"a", "c"}

BackendResults(src) ==
    SeqsUpTo({SearchResult(u, SnippetLen(src, u), src) : u \in BackendUrls(src)},
             MaxResults)

\* what agent.search may return
BackendResponses(src) ==
    {SearchResponse(TRUE, rs, src, Len(rs)) : rs \in BackendResults(src)}
    \cup {SearchResponse(FALSE, rs, src, 0) :
              rs \in {r \in BackendResults(src) : Len(r) <= 1}}

\* except Exception as e: return SearchResponse(False, [], type(agent).__name__, 0, 0, str(e))
ExceptionResponse(src) == SearchResponse(FALSE, <<>>, TypeName(src), 0)

(***************************************************************************)
(* MultiSearchAgent.search: the merge of the gathered responses.           *)
(***************************************************************************)
\* the sort key (len(x.snippet), 1 if x.source == "wikipedia" else 0)
SortKey(x) == <<x.snippet, IF x.source = "wikipedia" THEN 1 ELSE 0>>

KeyLess(k1, k2) == k1[1] < k2[1] \/ (k1[1] = k2[1] /\ k1[2] < k2[2])

\* list.sort(key=..., reverse=True): stable, descending
RECURSIVE SortInsert(_, _)
SortInsert(x, sorted) ==
    IF sorted = <<>> THEN <<x>>
    ELSE IF KeyLess(SortKey(Head(sorted)), SortKey(x))
         THEN <<x>> \o sorted
         ELSE <<Head(sorted)>> \o SortInsert(x, Tail(sorted))

RECURSIVE SortResultsFrom(_, _)
SortResultsFrom(rest, sorted) ==
    IF rest = <<>> THEN sorted
    ELSE SortResultsFrom(Tail(rest), SortInsert(Head(rest), sorted))

SortResults(all_results) == SortResultsFrom(all_results, <<>>)

\* a merge that keeps every result, seen before or not
MergeResults_NoDedup(results, all_results) == all_results \o results

\* for result in response.results: if result.url not in seen_urls: ...
RECURSIVE MergeResults(_, _)
MergeResults(results, all_results) ==
    IF results = <<>> THEN all_results
    ELSE LET result == Head(results)
             seen_urls == {r.url : r \in Range(all_results)}
         IN MergeResults(Tail(results),
                IF result.url \notin seen_urls
                THEN Append(all_results, result)
                ELSE all_results)

\* if isinstance(response, SearchResponse) and response.success
ResponseCounts(response) == response.success

\* for response in responses: ... ; acc = <<all_results, successful_sources>>
RECURSIVE MergeResponses(_, _)
MergeResponses(resps, acc) ==
    IF resps = <<>> THEN acc
    ELSE LET response == Head(resps)
         IN MergeResponses(Tail(resps),
                IF ResponseCounts(response)
                THEN <<MergeResults(response.results, acc[1]),
                       Append(acc[2], response.source)>>
                ELSE acc)

\* a merge that calls the search a success as soon as one backend succeeded
CombinedResponse_AnySource(resps, n) ==
    LET merged == MergeResponses(resps, <<<<>>, <<>>>>)
        all_results == SortResults(merged[1])
    IN SearchResponse(Len(merged[2]) > 0, Take(all_results, n), merged[2],
                      Len(all_results))

\* the SearchResponse that search returns for the gathered responses
CombinedResponse(resps, n) ==
    LET merged == MergeResponses(resps, <<<<>>, <<>>>>)
        all_results == SortResults(merged[1])
    IN SearchResponse(Len(all_results) > 0, Take(all_results, n), merged[2],
                      Len(all_results))

(***************************************************************************)
(* MultiSearchAgent.search: the tasks.                                     *)
(***************************************************************************)
Agents == 1..Len(search_agents)

InProgress == {a \in Agents : task_pc[a] = "running"}

SearchInit ==
    /\ \E n \in 0..MaxAgents : search_agents = [i \in 1..n |-> SourceOf(i)]
    /\ max_concurrent \in 1..MaxConcurrent
    /\ num_results \in NumResultsChoices
    /\ task_pc = [a \in Agents |-> "pending"]
    /\ semaphore = max_concurrent
    /\ calls = [a \in Agents |-> 0]
    /\ raised = [a \in Agents |-> FALSE]
    /\ responses = [a \in Agents |-> NoResponse]
    /\ search_response = NotReturned
    /\ search_completion = <<>>

\* a task that calls its backend without waiting for the semaphore
StartCall_NoSemaphore(a) ==
    /\ task_pc[a] = "pending"
    /\ semaphore' = semaphore - 1
    /\ task_pc' = [task_pc EXCEPT ![a] = "running"]
    /\ calls' = [calls EXCEPT ![a] = @ + 1]
    /\ UNCHANGED <<search_agents, max_concurrent, num_results, raised, responses,
                   search_response, search_completion>>
    /\ UNCHANGED <<scrapeVars, ragVars, chunkVars, keywordVars, systemVars, standaloneVars>>

\* async with semaphore: ... await agent.search(query, num_results // n + 2).
\* The tasks of gather start in list order and the semaphore wakes its waiters
\* first-in first-out.  What the backend makes of the requested count is its
\* own business: BackendResponses holds every answer it may give.
StartCall(a) ==
    /\ task_pc[a] = "pending"
    /\ semaphore > 0
    /\ \A b \in Agents : b < a => task_pc[b] # "pending"
    /\ semaphore' = semaphore - 1
    /\ task_pc' = [task_pc EXCEPT ![a] = "running"]
    /\ calls' = [calls EXCEPT ![a] = @ + 1]
    /\ UNCHANGED <<search_agents, max_concurrent, num_results, raised, responses,
                   search_response, search_completion>>
    /\ UNCHANGED <<scrapeVars, ragVars, chunkVars, keywordVars, systemVars, standaloneVars>>

\* agent.search returned a SearchResponse: the task returns it and leaves the
\* semaphore
CallReturns(a) ==
    /\ task_pc[a] = "running"
    /\ \E r \in BackendResponses(search_agents[a]) :
           responses' = [responses EXCEPT ![a] = r]
    /\ task_pc' = [task_pc EXCEPT ![a] = "done"]
    /\ semaphore' = semaphore + 1
    /\ search_completion' = Append(search_completion, a)
    /\ UNCHANGED <<search_agents, max_concurrent, num_results, calls, raised,
                   search_response>>
    /\ UNCHANGED <<scrapeVars, ragVars, chunkVars, keywordVars, systemVars, standaloneVars>>

\* a task that calls a backend again after it raised
CallRaises_Retry(a) ==
    /\ task_pc[a] = "running"
    /\ raised' = [raised EXCEPT ![a] = TRUE]
    /\ task_pc' = [task_pc EXCEPT ![a] = IF calls[a] < 2 THEN "pending" ELSE "done"]
    /\ search_completion' = IF calls[a] < 2 THEN search_completion
                            ELSE Append(search_completion, a)
    /\ responses' = [responses EXCEPT ![a] = ExceptionResponse(search_agents[a])]
    /\ semaphore' = semaphore + 1
    /\ UNCHANGED <<search_agents, max_concurrent, num_results, calls,
                   search_response>>
    /\ UNCHANGED <<scrapeVars, ragVars, chunkVars, keywordVars, systemVars, standaloneVars>>

\* agent.search raised: the except branch turns it into a failed response
CallRaises(a) ==
    /\ task_pc[a] = "running"
    /\ responses' = [responses EXCEPT ![a] = ExceptionResponse(search_agents[a])]
    /\ raised' = [raised EXCEPT ![a] = TRUE]
    /\ task_pc' = [task_pc EXCEPT ![a] = "done"]
    /\ semaphore' = semaphore + 1
    /\ search_completion' = Append(search_completion, a)
    /\ UNCHANGED <<search_agents, max_concurrent, num_results, calls,
                   search_response>>
    /\ UNCHANGED <<scrapeVars, ragVars, chunkVars, keywordVars, systemVars, standaloneVars>>

\* the responses in the order in which the tasks ended
GatherResponses_CompletionOrder ==
    [i \in 1..Len(search_completion) |-> responses[search_completion[i]]]

\* responses = await asyncio.gather(*search_tasks, ...): the responses in the
\* order of search_tasks, which is the order of self.search_agents
GatherResponses == [a \in Agents |-> responses[a]]

\* gather has every response: merge, sort, truncate, return
SearchReturns ==
    /\ search_response = NotReturned
    /\ \A a \in Agents : task_pc[a] = "done"
    /\ search_response' = CombinedResponse(GatherResponses, num_results)
    /\ UNCHANGED <<search_agents, max_concurrent, num_results, task_pc, semaphore,
                   calls, raised, responses, search_completion>>
    /\ UNCHANGED <<scrapeVars, ragVars, chunkVars, keywordVars, systemVars, standaloneVars>>

SearchIdle ==
    /\ search_agents = <<>>
    /\ max_concurrent = 0
    /\ num_results = 0
    /\ task_pc = <<>>
    /\ semaphore = 0
    /\ calls = <<>>
    /\ raised = <<>>
    /\ responses = <<>>
    /\ search_response = NotReturned
    /\ search_completion = <<>>

SearchNext ==
    \/ \E a \in Agents : StartCall(a)
    \/ \E a \in Agents : CallReturns(a)
    \/ \E a \in Agents : CallRaises(a)
    \/ SearchReturns

(***************************************************************************)
(* scraper.py: WebScraperAgent.                                            *)
(***************************************************************************)
ScrapedContent(url, content, text_length, success, error_message) ==
    [url |-> url, content |-> content, text_length |-> text_length,
     success |-> success, error_message |-> error_message]

\* a call that has not returned yet
NoContent == ScrapedContent("none", "", -1, FALSE, "")

NotScraped == <<NoContent>>

\* the text a page gives once extracted and cleaned, and its length
PageText == "page text"
PageLength == 9

\* the list of urls to scrape: the first n of these
UrlList(n) == [i \in 1..n |-> IF i = 1 THEN "a" ELSE IF i = 2 THEN "b"
                                ELSE IF i = 3 THEN "c" ELSE "d"]

\* how a server answers one request:
\*   "ok"        HTTP 200, the page has text
\*   "empty"     HTTP 200, nothing can be extracted from the page
\*   "http503"   HTTP 503
\*   "exception" session.get raises (a timeout, a refused connection)
ServerKinds == {"ok", "empty", "http503", "exception", "flaky"}

Answers(kind) ==
    IF kind = "flaky" THEN {"ok", "http503", "exception"} ELSE {kind}

\* 2 ** attempt
RECURSIVE Pow2(_)
Pow2(n) == IF n <= 0 THEN 1 ELSE 2 * Pow2(n - 1)

Tasks == 1..Len(urls)

NewTask == [pc |-> "pending", attempt |-> 0, wake |-> 0, requests |-> 0,
            sleeps |-> <<>>]

\* session.get(url, ...): one more request
StartFetch(task, attempt) ==
    [task EXCEPT !.pc = "fetching", !.attempt = attempt, !.requests = @ + 1]

\* a result list in the order in which the calls returned
GatherResults_CompletionOrder ==
    [i \in 1..Len(completion_order) |-> scrape_results[completion_order[i]]]

\* asyncio.gather(*tasks): the scrape_results in the order of the tasks
GatherResults == [i \in Tasks |-> scrape_results[i]]

\* the scraper is new (last_request_time = 0) or has just made a request
ScrapeInit(counts, retries, kinds) ==
    /\ \E n \in counts : urls = UrlList(n)
    /\ server \in [Tasks -> kinds]
    /\ max_retries \in retries
    /\ scrape_concurrent \in 1..Max(1, Len(urls))
    /\ now = StartTime
    /\ \/ last_request_time = 0 /\ fetch_starts = <<>>
       \/ last_request_time = StartTime /\ fetch_starts = <<StartTime>>
    /\ scrape_semaphore = scrape_concurrent
    /\ tasks = [t \in Tasks |-> NewTask]
    /\ scrape_results = [t \in Tasks |-> NoContent]
    /\ completion_order = <<>>
    /\ scraped = NotScraped

\* one scrape_url call, with any number of attempts up to the default
ScrapeUrlInit == ScrapeInit({1}, 0..DefaultMaxRetries, ServerKinds)

\* scrape_multiple_urls of several urls
ScrapeManyInit == ScrapeInit(0..MaxUrls, 1..MaxManyRetries, ServerKinds \ {"flaky"})

ScrapeIdle ==
    /\ urls = <<>>
    /\ server = <<>>
    /\ max_retries = 0
    /\ scrape_concurrent = 0
    /\ now = 0
    /\ last_request_time = 0
    /\ fetch_starts = <<>>
    /\ scrape_semaphore = 0
    /\ tasks = <<>>
    /\ scrape_results = <<>>
    /\ completion_order = <<>>
    /\ scraped = NotScraped

\* scrape_url returns content: the task ends and leaves the semaphore
Return(t, content, sem) ==
    /\ tasks' = [tasks EXCEPT ![t].pc = "done"]
    /\ scrape_results' = [scrape_results EXCEPT ![t] = content]
    /\ completion_order' = Append(completion_order, t)
    /\ scrape_semaphore' = sem + 1

\* the return after the loop: all attempts failed
Failure(url, error_msg) == ScrapedContent(url, "", 0, FALSE, error_msg)

\* for attempt in range(self.max_retries): the first pass, or none at all
EnterLoop(t, sem) ==
    IF max_retries > 0
    THEN /\ tasks' = [tasks EXCEPT ![t] = StartFetch(@, 0)]
         /\ fetch_starts' = Append(fetch_starts, now)
         /\ scrape_semaphore' = sem
         /\ UNCHANGED <<scrape_results, completion_order>>
    ELSE Return(t, Failure(urls[t], ""), sem) /\ UNCHANGED fetch_starts

\* async with semaphore: await self.scrape_url(url), up to its first
\* suspension: _rate_limit sleeps, or sets last_request_time and the first
\* request goes out.  The tasks of gather start in list order and the
\* semaphore wakes its waiters first-in first-out.
Begin(t) ==
    /\ tasks[t].pc = "pending"
    /\ scrape_semaphore > 0
    /\ \A u \in Tasks : u < t => tasks[u].pc # "pending"
    /\ LET time_since_last == now - last_request_time
       IN IF time_since_last < RateLimitDelay
          THEN /\ tasks' = [tasks EXCEPT ![t].pc = "rate_sleep",
                                         ![t].wake = now + (RateLimitDelay - time_since_last)]
               /\ scrape_semaphore' = scrape_semaphore - 1
               /\ UNCHANGED <<last_request_time, scrape_results, fetch_starts,
                              completion_order>>
          ELSE /\ last_request_time' = now
               /\ EnterLoop(t, scrape_semaphore - 1)
    /\ UNCHANGED <<urls, server, max_retries, scrape_concurrent, now, scraped>>
    /\ UNCHANGED <<searchVars, ragVars, chunkVars, keywordVars, systemVars, standaloneVars>>

\* _rate_limit after its sleep: self.last_request_time = time.time()
RateLimitWakes(t) ==
    /\ tasks[t].pc = "rate_sleep"
    /\ now >= tasks[t].wake
    /\ last_request_time' = now
    /\ EnterLoop(t, scrape_semaphore)
    /\ UNCHANGED <<urls, server, max_retries, scrape_concurrent, now, scraped>>
    /\ UNCHANGED <<searchVars, ragVars, chunkVars, keywordVars, systemVars, standaloneVars>>

\* the request of this attempt is answered
Answered(t) ==
    /\ tasks[t].pc = "fetching"
    /\ \E answer \in Answers(server[t]) :
         LET attempt == tasks[t].attempt
         IN CASE answer = "ok" ->
                   \* extraction gives text: return ... success=True
                   Return(t, ScrapedContent(urls[t], PageText, PageLength, TRUE, ""),
                          scrape_semaphore)
              [] answer = "empty" ->
                   \* trafilatura gives nothing; the BeautifulSoup fallback
                   \* returns whatever text it finds, here none
                   Return(t, ScrapedContent(urls[t], "", 0, TRUE, ""),
                          scrape_semaphore)
              [] answer = "http503" ->
                   \* else: error_msg = f"HTTP {response.status}"; next pass
                   IF attempt + 1 < max_retries
                   THEN /\ tasks' = [tasks EXCEPT ![t] = StartFetch(@, attempt + 1)]
                        /\ UNCHANGED <<scrape_semaphore, scrape_results, completion_order>>
                   ELSE Return(t, Failure(urls[t], "HTTP 503"), scrape_semaphore)
              [] answer = "exception" ->
                   \* except Exception: ... if attempt < self.max_retries - 1:
                   \*     await asyncio.sleep(2 ** attempt)
                   IF attempt < max_retries - 1
                   THEN /\ tasks' = [tasks EXCEPT
                               ![t].pc = "backoff",
                               ![t].wake = now + Pow2(attempt),
                               ![t].sleeps = Append(@, Pow2(attempt))]
                        /\ UNCHANGED <<scrape_semaphore, scrape_results, completion_order>>
                   ELSE Return(t, Failure(urls[t], "exception"), scrape_semaphore)
    /\ UNCHANGED <<urls, server, max_retries, scrape_concurrent, now,
                   last_request_time, fetch_starts, scraped>>
    /\ UNCHANGED <<searchVars, ragVars, chunkVars, keywordVars, systemVars, standaloneVars>>

\* the backoff sleep is over: the next pass of the loop
BackoffWakes(t) ==
    /\ tasks[t].pc = "backoff"
    /\ now >= tasks[t].wake
    /\ tasks' = [tasks EXCEPT ![t] = StartFetch(@, tasks[t].attempt + 1)]
    /\ UNCHANGED <<urls, server, max_retries, scrape_concurrent, now,
                   last_request_time, scrape_semaphore, scrape_results,
                   fetch_starts, completion_order, scraped>>
    /\ UNCHANGED <<searchVars, ragVars, chunkVars, keywordVars, systemVars, standaloneVars>>

\* a second passes
Tick ==
    /\ now < StartTime + MaxTicks
    /\ scraped = NotScraped
    /\ now' = now + 1
    /\ UNCHANGED <<urls, server, max_retries, scrape_concurrent,
                   last_request_time, scrape_semaphore, tasks, scrape_results,
                   fetch_starts, completion_order, scraped>>
    /\ UNCHANGED <<searchVars, ragVars, chunkVars, keywordVars, systemVars, standaloneVars>>

\* return await asyncio.gather(*tasks)
ScrapeReturns ==
    /\ scraped = NotScraped
    /\ \A t \in Tasks : tasks[t].pc = "done"
    /\ scraped' = GatherResults
    /\ UNCHANGED <<urls, server, max_retries, scrape_concurrent, now,
                   last_request_time, scrape_semaphore, tasks, scrape_results,
                   fetch_starts, completion_order>>
    /\ UNCHANGED <<searchVars, ragVars, chunkVars, keywordVars, systemVars, standaloneVars>>

ScrapeNext ==
    \/ \E t \in Tasks : Begin(t)
    \/ \E t \in Tasks : RateLimitWakes(t)
    \/ \E t \in Tasks : Answered(t)
    \/ \E t \in Tasks : BackoffWakes(t)
    \/ Tick
    \/ ScrapeReturns

(***************************************************************************)
(***************************************************************************)
(* rag_agent.py: ImprovedRAGAgent.  A word is an integer: n > 0 is a       *)
(* lower-case word and -n the same word with capitals.                     *)
(***************************************************************************)
\* str.lower() of a word
Lower(w) == IF w < 0 THEN 0 - w ELSE w

\* _preprocess_text of the joined words: lower-cased, single spaces
PreprocessWords(words) == [i \in 1..Len(words) |-> Lower(words[i])]

\* A score is a fraction n/d in lowest terms, d > 0.
RECURSIVE Gcd(_, _)
Gcd(a, b) == IF b = 0 THEN a ELSE Gcd(b, a % b)

Abs(a) == IF a < 0 THEN 0 - a ELSE a

Frac(n, d) ==
    LET g == Gcd(Abs(n), d)
    IN [n |-> n \div g, d |-> d \div g]

FracAdd(x, y) == Frac(x.n * y.d + y.n * x.d, x.d * y.d)
FracMul(x, y) == Frac(x.n * y.n, x.d * y.d)
FracLess(x, y) == x.n * y.d < y.n * x.d
FracLeq(x, y) == x.n * y.d <= y.n * x.d

Zero == Frac(0, 1)
One == Frac(1, 1)

\* the similarity_score of a chunk no query has scored: metadata has no such
\* key, and metadata.get('similarity_score', 0) reads it as 0
NoScore == [n |-> 0, d |-> 0]

DocumentChunk(content, source_url, chunk_index, word_count) ==
    [content |-> content, source_url |-> source_url, chunk_index |-> chunk_index,
     word_count |-> word_count, similarity_score |-> NoScore]

\* words[i:i + n] for a 0-based i >= 0 and n >= 0
Slice(words, i, n) == SubSeq(words, i + 1, Min(i + n, Len(words)))

\* len(range(0, n, step)) for step # 0
RangeLen(n, step) ==
    IF step > 0 THEN (n + step - 1) \div step ELSE 0

\* range(0, len(words), 0) raises ValueError
ChunkRaises(size, overlap) == size - overlap = 0

\* a window that advances by chunk_size, the overlap forgotten
chunk_text_NoOverlap(words, source_url, size, overlap) ==
    [k \in 1..RangeLen(Len(words), size) |->
        LET chunk_words == Slice(words, (k - 1) * size, size)
        IN DocumentChunk(PreprocessWords(chunk_words), source_url, k - 1,
                         Len(chunk_words))]

\* _chunk_text: for i in range(0, len(words), chunk_size - chunk_overlap):
\* the k-th pass has i = (k - 1) * step and len(chunks) = k - 1
chunk_text(words, source_url, size, overlap) ==
    LET step == size - overlap
    IN [k \in 1..RangeLen(Len(words), step) |->
           LET chunk_words == Slice(words, (k - 1) * step, size)
           IN DocumentChunk(PreprocessWords(chunk_words), source_url, k - 1,
                            Len(chunk_words))]

\* self.embeddings = None, self.index = None
NoneMatrix == [none |-> TRUE, rows |-> <<>>]

Matrix(rows) == [none |-> FALSE, rows |-> rows]

\* the row self.model.encode gives for a text
Embed(content) == <<"embedding", content>>

\* faiss.normalize_L2 of a row
NormalizeL2(row) == <<"unit", row>>

\* self.model.encode(texts): a row per text
Encode(chunks) == [i \in 1..Len(chunks) |-> Embed(chunks[i].content)]

\* index_documents: len(doc.content.strip()) > 100
MinContentChars == 100

\* the documents handed to index_documents: the scrape succeeded or failed, the
\* content is long or short.  chars is len(content.strip()).
Document(url, words, chars, success) ==
    [url |-> url, words |-> words, chars |-> chars, success |-> success]

DocWords == {<<>>, <<1, -2>>} \cup {[i \in 1..MaxDocWords |-> i]}

Documents ==
    {Document(u, w, c, ok) :
        u \in {"a", "b"}, w \in DocWords,
        c \in {0, MinContentChars, MinContentChars + 1}, ok \in BOOLEAN}

\* a document whose stripped content is empty has no word, and a word takes
\* at least one character
WellFormed(doc) ==
    /\ (doc.chars = 0) <=> (doc.words = <<>>)
    /\ ~doc.success => doc.words = <<>>

Batches == SeqsUpTo({d \in Documents : WellFormed(d)}, MaxBatch)

\* if doc.success and doc.content and len(doc.content.strip()) > 100
Indexable(doc) == doc.success /\ doc.words # <<>> /\ doc.chars > MinContentChars

\* for doc in documents: ... new_chunks.extend(chunks)
RECURSIVE NewChunks(_, _, _)
NewChunks(documents, size, overlap) ==
    IF documents = <<>> THEN <<>>
    ELSE LET doc == Head(documents)
         IN (IF Indexable(doc) THEN chunk_text(doc.words, doc.url, size, overlap)
             ELSE <<>>)
            \o NewChunks(Tail(documents), size, overlap)

\* some document reaches _chunk_text and its range(..., 0) raises
ChunkingRaises(documents) ==
    /\ ChunkRaises(chunk_size, chunk_overlap)
    /\ \E i \in 1..Len(documents) : Indexable(documents[i])

\* the chunk_size and chunk_overlap the agent is constructed with: __init__
\* stores them unchecked, also a chunk_overlap >= chunk_size
RagConfigs == {<<2, 1>>, <<3, 1>>, <<3, 0>>, <<2, 2>>, <<2, 3>>}

\* query has not returned
NoResult == [query |-> <<>>, relevant_chunks |-> <<>>,
             generated_response |-> "none", confidence_score |-> NoScore,
             sources |-> {}, retrieval_time |-> -1, generation_time |-> -1]

\* save_index has written no file
NoFile == [document_chunks |-> <<>>, embeddings |-> NoneMatrix, written |-> FALSE]

RagInit ==
    /\ \E c \in RagConfigs : chunk_size = c[1] /\ chunk_overlap = c[2]
    /\ use_embeddings \in BOOLEAN
    /\ document_chunks = <<>>
    /\ embeddings = NoneMatrix
    /\ index = NoneMatrix
    /\ rag_error = "none"
    /\ indexable_given = FALSE
    /\ rag_result = NoResult
    /\ result_refs = <<>>
    /\ saved = NoFile
    /\ loaded = FALSE

AgentIdle ==
    /\ use_embeddings = FALSE
    /\ document_chunks = <<>>
    /\ embeddings = NoneMatrix
    /\ index = NoneMatrix
    /\ rag_error = "none"
    /\ indexable_given = FALSE
    /\ rag_result = NoResult
    /\ result_refs = <<>>
    /\ saved = NoFile
    /\ loaded = FALSE

RagIdle == chunk_size = 0 /\ chunk_overlap = 0 /\ AgentIdle

\* the rows self.index holds after the rebuild over the matrix
RebuiltIndex(matrix) ==
    Matrix([i \in 1..Len(matrix.rows) |-> NormalizeL2(matrix.rows[i])])

\* index_documents(documents), the embedding step succeeding
IndexDocuments(documents) ==
    /\ ~ChunkingRaises(documents)
    /\ LET new_chunks == NewChunks(documents, chunk_size, chunk_overlap)
       IN /\ Len(document_chunks) + Len(new_chunks) <= MaxChunks
          /\ document_chunks' = document_chunks \o new_chunks
          /\ IF use_embeddings /\ new_chunks # <<>>
             THEN LET new_embeddings == Encode(new_chunks)
                      stacked == IF embeddings.none THEN Matrix(new_embeddings)
                                 ELSE Matrix(embeddings.rows \o new_embeddings)
                  IN /\ embeddings' = stacked
                     /\ index' = RebuiltIndex(stacked)
             ELSE UNCHANGED <<embeddings, index>>
    /\ rag_error' = "none"
    /\ indexable_given' = (\E i \in 1..Len(documents) : Indexable(documents[i]))
    /\ UNCHANGED <<chunk_size, chunk_overlap, use_embeddings, rag_result, result_refs, saved,
                   loaded>>
    /\ UNCHANGED <<searchVars, scrapeVars, chunkVars, keywordVars, systemVars, standaloneVars>>

\* index_documents(documents) when self.model.encode raises (out of memory, a
\* failing device): the new chunks are in document_chunks already
IndexDocumentsEncodeRaises(documents) ==
    /\ ~ChunkingRaises(documents)
    /\ use_embeddings
    /\ LET new_chunks == NewChunks(documents, chunk_size, chunk_overlap)
       IN /\ new_chunks # <<>>
          /\ Len(document_chunks) + Len(new_chunks) <= MaxChunks
          /\ document_chunks' = document_chunks \o new_chunks
    /\ rag_error' = "encode"
    /\ indexable_given' = TRUE
    /\ UNCHANGED <<chunk_size, chunk_overlap, use_embeddings, embeddings, index,
                   rag_result, result_refs, saved, loaded>>
    /\ UNCHANGED <<searchVars, scrapeVars, chunkVars, keywordVars, systemVars, standaloneVars>>

\* index_documents(documents) when chunk_size - chunk_overlap = 0: the first
\* document that passes the filter reaches _chunk_text, whose range(0, n, 0)
\* raises ValueError before document_chunks is extended
IndexDocumentsChunkRaises(documents) ==
    /\ ChunkingRaises(documents)
    /\ rag_error' = "ValueError"
    /\ indexable_given' = TRUE
    /\ UNCHANGED <<chunk_size, chunk_overlap, use_embeddings, document_chunks,
                   embeddings, index, rag_result, result_refs, saved, loaded>>
    /\ UNCHANGED <<searchVars, scrapeVars, chunkVars, keywordVars, systemVars, standaloneVars>>

(***************************************************************************)
(* ImprovedRAGAgent.query.  A query is a sequence of words, as a chunk's    *)
(* content is.                                                             *)
(***************************************************************************)
\* intersection / len(query_words): the union forgotten
keyword_similarity_OfQuery(query, chunk) ==
    LET query_words == Range(PreprocessWords(query))
        chunk_words == Range(chunk.content)
    IN IF query_words = {} THEN Zero
       ELSE Frac(Cardinality(query_words \cap chunk_words),
                 Cardinality(query_words))

\* _calculate_keyword_similarity: the query is lower-cased, the chunk's
\* content is taken as it is
keyword_similarity(query, chunk) ==
    LET query_words == Range(PreprocessWords(query))
        chunk_words == Range(chunk.content)
        intersection == Cardinality(query_words \cap chunk_words)
        union == Cardinality(query_words \cup chunk_words)
    IN IF query_words = {} THEN Zero
       ELSE IF union > 0 THEN Frac(intersection, union) ELSE Zero

\* list.sort(reverse=True, key=lambda x: x[0]): stable, so entries of equal
\* score keep their order
RECURSIVE InsertDesc(_, _)
InsertDesc(sorted, x) ==
    IF sorted = <<>> THEN <<x>>
    ELSE IF FracLess(Head(sorted).score, x.score) THEN <<x>> \o sorted
    ELSE <<Head(sorted)>> \o InsertDesc(Tail(sorted), x)

RECURSIVE SortDesc(_)
SortDesc(s) ==
    IF s = <<>> THEN <<>>
    ELSE InsertDesc(SortDesc(SubSeq(s, 1, Len(s) - 1)), s[Len(s)])

\* the cosine similarity the embedding model gives two texts: 1 for equal
\* texts, below 0 for texts without a common word
Cosine(q, c) ==
    LET shared == Cardinality(Range(q) \cap Range(c))
    IN IF q = c THEN One
       ELSE IF shared = 0 THEN Frac(-1, 10)
       ELSE Frac(shared, Len(q) + Len(c))

\* the inner product of two L2-normalized rows
InnerProduct(x, y) == Cosine(x[2][2], y[2][2])

\* the score FAISS reports for a slot it has no row for: the lowest float
FloatMax == 1000
LowestFloat == Frac(0 - FloatMax, 1)

\* self.index.search(query_embedding, k): the k rows of the index nearest to
\* the query, best first, as (score, 0-based row); a slot without a row has
\* the row -1
IndexSearch(ix, query_row, k) ==
    LET hits == SortDesc([i \in 1..Len(ix.rows) |->
                    [score |-> InnerProduct(query_row, ix.rows[i]), pos |-> i - 1]])
    IN [j \in 1..k |-> IF j <= Len(hits) THEN hits[j]
                       ELSE [score |-> LowestFloat, pos |-> -1]]

\* combined_score = 0.7 * float(score) + 0.3 * keyword_score
CombinedScore(score, keyword_score) ==
    FracAdd(FracMul(Frac(7, 10), score), FracMul(Frac(3, 10), keyword_score))

\* for score, idx in zip(scores[0], indices[0]): the chunk at idx (a negative
\* idx counts from the end, an idx past the end raises IndexError) gets its
\* combined score written into its metadata
RECURSIVE ScoreCandidates(_, _, _, _)
ScoreCandidates(hits, query, chunks, candidates) ==
    IF hits = <<>>
    THEN [chunks |-> chunks, candidates |-> candidates, raised |-> FALSE]
    ELSE LET hit == Head(hits)
             at == IF hit.pos >= 0 THEN hit.pos + 1
                   ELSE Len(chunks) + hit.pos + 1
         IN IF at < 1 \/ at > Len(chunks)
            THEN [chunks |-> chunks, candidates |-> candidates, raised |-> TRUE]
            ELSE LET combined_score ==
                         CombinedScore(hit.score,
                                       keyword_similarity(query, chunks[at]))
                 IN ScoreCandidates(
                        Tail(hits), query,
                        [chunks EXCEPT ![at].similarity_score = combined_score],
                        Append(candidates, [score |-> combined_score, pos |-> at]))

\* the embedding branch of query
EmbeddingScored(query, top_k) ==
    LET query_embedding == NormalizeL2(Embed(PreprocessWords(query)))
        k_search == Min(top_k * 3, Len(document_chunks))
    IN ScoreCandidates(IndexSearch(index, query_embedding, k_search), query,
                       document_chunks, <<>>)

\* the keyword branch without the filter score > 0
KeywordScored_KeepsZero(query) ==
    LET score(i) == keyword_similarity(query, document_chunks[i])
    IN [chunks |->
            [i \in 1..Len(document_chunks) |->
                [document_chunks[i] EXCEPT !.similarity_score = score(i)]],
        candidates |->
            [i \in 1..Len(document_chunks) |-> [score |-> score(i), pos |-> i]],
        raised |-> FALSE]

\* the keyword branch of query: every chunk with a score > 0 gets the score
\* written into its metadata and is a candidate
KeywordScored(query) ==
    LET score(i) == keyword_similarity(query, document_chunks[i])
    IN [chunks |->
            [i \in 1..Len(document_chunks) |->
                IF FracLess(Zero, score(i))
                THEN [document_chunks[i] EXCEPT !.similarity_score = score(i)]
                ELSE document_chunks[i]],
        candidates |->
            SelectSeq([i \in 1..Len(document_chunks) |->
                          [score |-> score(i), pos |-> i]],
                      LAMBDA c : FracLess(Zero, c.score)),
        raised |-> FALSE]

\* chunk.metadata.get('similarity_score', 0)
ScoreOf(chunk) ==
    IF chunk.similarity_score = NoScore THEN Zero ELSE chunk.similarity_score

RECURSIVE SumScores(_)
SumScores(chunks) ==
    IF chunks = <<>> THEN Zero
    ELSE FracAdd(ScoreOf(Head(chunks)), SumScores(Tail(chunks)))

\* float(np.mean(top_scores)) if top_scores else 0.0
MeanScore(chunks) ==
    IF chunks = <<>> THEN Zero
    ELSE FracMul(SumScores(chunks), Frac(1, Len(chunks)))

\* time.time() - start_time once chunks were scored
Elapsed == 1

RAGResult(query, relevant_chunks, generated_response, confidence_score, sources, retrieval_time, generation_time) ==
    [query |-> query, relevant_chunks |-> relevant_chunks,
     generated_response |-> generated_response,
     confidence_score |-> confidence_score, sources |-> sources,
     retrieval_time |-> retrieval_time, generation_time |-> generation_time]

\* what query returns once the candidates are scored: the chunks are the
\* objects of document_chunks, with the metadata the loop left them with
QueryResult(query, top_k, scored) ==
    LET ranked == Take(SortDesc(scored.candidates), top_k)
        relevant_chunks == [j \in 1..Len(ranked) |-> scored.chunks[ranked[j].pos]]
    IN RAGResult(query, relevant_chunks,
                 IF relevant_chunks # <<>> THEN "Based on the retrieved context"
                 ELSE "No relevant information found",
                 MeanScore(relevant_chunks),
                 {relevant_chunks[j].source_url : j \in 1..Len(relevant_chunks)},
                 Elapsed, Elapsed)

\* relevant_chunks = [chunk for _, chunk in candidates[:top_k]]: the list holds
\* the chunk objects of document_chunks themselves, those at these positions
ResultRefs(top_k, scored) ==
    LET ranked == Take(SortDesc(scored.candidates), top_k)
    IN [j \in 1..Len(ranked) |-> ranked[j].pos]

\* if self.use_embeddings and self.index
EmbeddingBranch == use_embeddings /\ ~index.none

\* query without the early return for an agent with no chunks
Query_NoEarlyReturn(query, top_k) ==
    /\ LET scored == IF EmbeddingBranch THEN EmbeddingScored(query, top_k)
                      ELSE KeywordScored(query)
       IN /\ document_chunks' = scored.chunks
          /\ rag_result' = QueryResult(query, top_k, scored)
          /\ result_refs' = ResultRefs(top_k, scored)
          /\ rag_error' = "none"
    /\ UNCHANGED <<chunk_size, chunk_overlap, use_embeddings, embeddings, index,
                   indexable_given, saved, loaded>>
    /\ UNCHANGED <<searchVars, scrapeVars, chunkVars, keywordVars, systemVars, standaloneVars>>

\* await self.query(query, top_k)
Query(query, top_k) ==
    /\ IF document_chunks = <<>>
       THEN /\ rag_result' = RAGResult(query, <<>>, "No indexed documents available.",
                                       Zero, {}, 0, 0)
            /\ result_refs' = <<>>
            /\ rag_error' = "none"
            /\ UNCHANGED document_chunks
       ELSE LET scored == IF EmbeddingBranch THEN EmbeddingScored(query, top_k)
                          ELSE KeywordScored(query)
            IN /\ document_chunks' = scored.chunks
               /\ IF scored.raised
                  THEN rag_error' = "IndexError" /\ UNCHANGED <<rag_result, result_refs>>
                  ELSE /\ rag_result' = QueryResult(query, top_k, scored)
                       /\ result_refs' = ResultRefs(top_k, scored)
                       /\ rag_error' = "none"
    /\ UNCHANGED <<chunk_size, chunk_overlap, use_embeddings, embeddings, index,
                   indexable_given, saved, loaded>>
    /\ UNCHANGED <<searchVars, scrapeVars, chunkVars, keywordVars, systemVars, standaloneVars>>

(***************************************************************************)
(* system.py: save_index and load_index of RobustWebSearchRAGSystem, which *)
(* work on the fields of its rag_agent.                                    *)
(***************************************************************************)
\* save_index(filepath): pickle.dump of the chunks and of the embeddings
SaveIndex ==
    /\ saved' = [document_chunks |-> document_chunks, embeddings |-> embeddings,
                 written |-> TRUE]
    /\ UNCHANGED <<chunk_size, chunk_overlap, use_embeddings, document_chunks,
                   embeddings, index, rag_error, indexable_given, rag_result, result_refs,
                   loaded>>
    /\ UNCHANGED <<searchVars, scrapeVars, chunkVars, keywordVars, systemVars, standaloneVars>>

\* load_index(filepath) of a file save_index wrote: the chunks and, in
\* embedding mode, the embeddings are replaced; self.index is left as it is
LoadIndex ==
    /\ saved.written
    /\ document_chunks' = saved.document_chunks
    /\ embeddings' = IF use_embeddings /\ ~saved.embeddings.none
                     THEN saved.embeddings ELSE embeddings
    /\ loaded' = TRUE
    /\ result_refs' = <<>>
    /\ UNCHANGED <<chunk_size, chunk_overlap, use_embeddings, index, rag_error,
                   indexable_given, rag_result, saved>>
    /\ UNCHANGED <<searchVars, scrapeVars, chunkVars, keywordVars, systemVars, standaloneVars>>

\* a fresh RobustWebSearchRAGSystem of the same configuration: a new, empty
\* ImprovedRAGAgent; the file stays on disk
NewSystem ==
    /\ document_chunks # <<>>
    /\ document_chunks' = <<>>
    /\ embeddings' = NoneMatrix
    /\ index' = NoneMatrix
    /\ rag_error' = "none"
    /\ indexable_given' = FALSE
    /\ rag_result' = NoResult
    /\ result_refs' = <<>>
    /\ loaded' = FALSE
    /\ UNCHANGED <<chunk_size, chunk_overlap, use_embeddings, saved>>
    /\ UNCHANGED <<searchVars, scrapeVars, chunkVars, keywordVars, systemVars, standaloneVars>>

Queries == {<<>>, <<-1>>, <<2, 3>>}
TopKs == 1..MaxTopK

RagNext ==
    \/ \E documents \in Batches : IndexDocuments(documents)
    \/ \E documents \in Batches : IndexDocumentsEncodeRaises(documents)
    \/ \E documents \in Batches : IndexDocumentsChunkRaises(documents)

(***************************************************************************)
(* The agent queried: index_documents with the scraped pages of one search *)
(* at a time, and query.                                                   *)
(***************************************************************************)
QueryConfigs == {<<2, 1>>, <<3, 0>>}

QueryBatches ==
    {<<Document("a", <<1, -2>>, MinContentChars + 1, TRUE)>>,
     <<Document("b", <<1, 2, 3>>, MinContentChars + 1, TRUE)>>,
     <<Document("c", <<>>, 0, FALSE),
       Document("a", <<3>>, MinContentChars + 1, TRUE)>>}

QueryInit ==
    /\ \E c \in QueryConfigs : chunk_size = c[1] /\ chunk_overlap = c[2]
    /\ use_embeddings \in BOOLEAN
    /\ document_chunks = <<>>
    /\ embeddings = NoneMatrix
    /\ index = NoneMatrix
    /\ rag_error = "none"
    /\ indexable_given = FALSE
    /\ rag_result = NoResult
    /\ result_refs = <<>>
    /\ saved = NoFile
    /\ loaded = FALSE

\* index_documents while the collection is small
IndexPages(documents) ==
    /\ Len(document_chunks) + Len(NewChunks(documents, chunk_size, chunk_overlap))
           <= MaxQueryChunks
    /\ IndexDocuments(documents)

IndexPagesEncodeRaises(documents) ==
    /\ Len(document_chunks) + Len(NewChunks(documents, chunk_size, chunk_overlap))
           <= MaxQueryChunks
    /\ IndexDocumentsEncodeRaises(documents)

QueryNext ==
    \/ \E documents \in QueryBatches : IndexPages(documents)
    \/ \E documents \in QueryBatches : IndexPagesEncodeRaises(documents)
    \/ \E query \in Queries, top_k \in TopKs : Query(query, top_k)

(***************************************************************************)
(* The index saved and loaded: one save_index, then one load_index into    *)
(* the same system or into a fresh one, with index_documents and query     *)
(* calls before, between and after.                                        *)
(***************************************************************************)
SaveOnce == ~saved.written /\ SaveIndex

LoadOnce == ~loaded /\ LoadIndex

FreshSystem == saved.written /\ ~loaded /\ NewSystem

PersistQueries == {<<2, 3>>}

PersistNext ==
    \/ \E documents \in QueryBatches : IndexPages(documents)
    \/ \E query \in PersistQueries : Query(query, MaxTopK)
    \/ SaveOnce
    \/ LoadOnce
    \/ FreshSystem

(***************************************************************************)
(* _chunk_text on its own, on texts of up to MaxWords different words.     *)
(***************************************************************************)
NotChunked == <<DocumentChunk(<<>>, "none", -1, -1)>>

ChunkConfigs == {<<500, 100>>, <<500, 50>>, <<512, 64>>}

ChunkInit ==
    /\ \E n \in 0..MaxWords : text = [i \in 1..n |-> i]
    /\ \E c \in ChunkConfigs : chunk_size = c[1] /\ chunk_overlap = c[2]
    /\ chunked = NotChunked
    /\ AgentIdle

ChunkIdle == text = <<>> /\ chunked = NotChunked

\* self._chunk_text(text, "a")
ChunkText ==
    /\ chunked = NotChunked
    /\ ~ChunkRaises(chunk_size, chunk_overlap)
    /\ chunked' = chunk_text(text, "a", chunk_size, chunk_overlap)
    /\ UNCHANGED <<text, ragVars>>
    /\ UNCHANGED <<searchVars, scrapeVars, keywordVars, systemVars, standaloneVars>>

ChunkNext == ChunkText

(***************************************************************************)
(* _calculate_keyword_similarity on its own, on a query of up to           *)
(* MaxQueryWords words and a chunk _chunk_text made of up to MaxChunkWords *)
(* words.                                                                  *)
(***************************************************************************)
KeywordWords == {1, -1, 2, 3, 4}

KeywordInit ==
    /\ kw_query \in SeqsUpTo(KeywordWords, MaxQueryWords)
    /\ \E words \in SeqsUpTo(KeywordWords, MaxChunkWords) :
           kw_chunk = DocumentChunk(PreprocessWords(words), "a", 0, Len(words))
    /\ kw_score = NoScore

KeywordIdle ==
    /\ kw_query = <<>>
    /\ kw_chunk = DocumentChunk(<<>>, "none", -1, -1)
    /\ kw_score = NoScore

\* self._calculate_keyword_similarity(query, chunk)
KeywordSimilarity ==
    /\ kw_score = NoScore
    /\ kw_score' = keyword_similarity(kw_query, kw_chunk)
    /\ UNCHANGED <<kw_query, kw_chunk>>
    /\ UNCHANGED <<searchVars, scrapeVars, ragVars, chunkVars, systemVars, standaloneVars>>

KeywordNext == KeywordSimilarity

(***************************************************************************)
(* system.py: RobustWebSearchRAGSystem.query_with_rag.  The stages are the *)
(* awaits of the call; what a stage returns or raises is chosen here, the  *)
(* stages themselves are modelled above.                                   *)
(***************************************************************************)
\* urlparse(url).scheme
Scheme(url) ==
    IF url = "http://a" THEN "http"
    ELSE IF url = "https://b" THEN "https"
    ELSE IF url = "ftp://c" THEN "ftp"
    ELSE ""

SystemUrls == {"http://a", "https://b", "ftp://c", "d"}

\* what MultiSearchAgent.search may return: success = len(all_results) > 0
SystemSearchResponses ==
    {SearchResponse(rs # <<>>, rs, <<>>, Len(rs)) :
        rs \in SeqsUpTo({SearchResult(u, 1, "duckduckgo") : u \in SystemUrls},
                        MaxSystemResults)}

\* [r.url for r in results if urlparse(r.url).scheme in ['http', 'https']]
ValidUrls(results) ==
    LET kept == SelectSeq(results, LAMBDA r : Scheme(r.url) \in {"http", "https"})
    IN [i \in 1..Len(kept) |-> kept[i].url]

\* what scrape_multiple_urls may return for a url: a page of more than 100
\* characters, a shorter page, or a failure
PageKinds == {"long", "short", "failed"}

Page(url, kind) ==
    [url |-> url, success |-> kind # "failed",
     chars |-> IF kind = "long" THEN MinContentChars + 1
               ELSE IF kind = "short" THEN MinContentChars ELSE 0]

\* [c for c in scraped_contents if c.success and len(c.content) > 100]
SuccessfulContents(contents) ==
    SelectSeq(contents, LAMBDA c : c.success /\ c.chars > MinContentChars)

\* query_with_rag has not returned
NoDict == [success |-> FALSE, error |-> <<"none">>]

\* {"error": message}
ErrorDict(message) == [success |-> FALSE, error |-> message]

\* {"success": True, "rag_result": ..., ...}
SuccessDict == [success |-> TRUE, error |-> <<>>]

\* return of a dict: the call is over
Returns(dict) ==
    /\ sys_pc' = "done"
    /\ sys_result' = dict

\* an exception that leaves the call
Caught_Reraised(stage, message) ==
    /\ sys_pc' = "raised"
    /\ sys_raised' = message
    /\ sys_stages' = Append(sys_stages, stage)
    /\ UNCHANGED sys_result

\* except Exception as e: return {"error": f"System error: {str(e)}"}
Caught(stage, message) ==
    /\ Returns(ErrorDict(<<"System error: ", message>>))
    /\ sys_raised' = message
    /\ sys_stages' = Append(sys_stages, stage)

SystemInit ==
    /\ sys_pc = "called"
    /\ query_blank \in BOOLEAN
    /\ search_first \in BOOLEAN
    /\ sys_search = NotReturned
    /\ valid_urls = <<>>
    /\ scraped_contents = <<>>
    /\ sys_stages = <<>>
    /\ sys_raised = "none"
    /\ sys_result = NoDict

SystemIdle ==
    /\ sys_pc = "idle"
    /\ query_blank = FALSE
    /\ search_first = FALSE
    /\ sys_search = NotReturned
    /\ valid_urls = <<>>
    /\ scraped_contents = <<>>
    /\ sys_stages = <<>>
    /\ sys_raised = "none"
    /\ sys_result = NoDict

otherVars == <<searchVars, scrapeVars, ragVars, chunkVars, keywordVars,
               standaloneVars>>

\* the call up to its first await
Called ==
    /\ sys_pc = "called"
    /\ IF query_blank THEN Returns(ErrorDict(<<"Empty query provided">>))
       ELSE /\ sys_pc' = IF search_first THEN "search" ELSE "retrieve"
            /\ UNCHANGED sys_result
    /\ UNCHANGED <<query_blank, search_first, sys_search, valid_urls,
                   scraped_contents, sys_stages, sys_raised>>
    /\ UNCHANGED otherVars

\* [STEP 1/4] multi_search.search returns; the urls are filtered
SearchStage(response) ==
    /\ sys_pc = "search"
    /\ sys_search' = response
    /\ sys_stages' = Append(sys_stages, "search")
    /\ IF ~response.success \/ response.results = <<>>
       THEN /\ Returns(ErrorDict(<<"Search failed or returned no results">>))
            /\ UNCHANGED valid_urls
       ELSE /\ valid_urls' = ValidUrls(response.results)
            /\ IF valid_urls' = <<>>
               THEN Returns(ErrorDict(<<"No valid URLs found to scrape">>))
               ELSE sys_pc' = "scrape" /\ UNCHANGED sys_result
    /\ UNCHANGED <<query_blank, search_first, scraped_contents, sys_raised>>
    /\ UNCHANGED otherVars

\* [STEP 2/4] scrape_multiple_urls returns a ScrapedContent per valid url
ScrapeStage(kinds) ==
    /\ sys_pc = "scrape"
    /\ scraped_contents' = [i \in 1..Len(valid_urls) |-> Page(valid_urls[i], kinds[i])]
    /\ sys_stages' = Append(sys_stages, "scrape")
    /\ sys_pc' = IF SuccessfulContents(scraped_contents') # <<>> THEN "index"
                 ELSE "retrieve"
    /\ UNCHANGED <<query_blank, search_first, sys_search, valid_urls, sys_raised,
                   sys_result>>
    /\ UNCHANGED otherVars

\* [STEP 3/4] rag_agent.index_documents(successful_contents) returns
IndexStage ==
    /\ sys_pc = "index"
    /\ sys_stages' = Append(sys_stages, "index")
    /\ sys_pc' = "retrieve"
    /\ UNCHANGED <<query_blank, search_first, sys_search, valid_urls,
                   scraped_contents, sys_raised, sys_result>>
    /\ UNCHANGED otherVars

\* [STEP 4/4] rag_agent.query returns; the statistics are added
RetrieveStage ==
    /\ sys_pc = "retrieve"
    /\ sys_stages' = Append(sys_stages, "retrieve")
    /\ Returns(SuccessDict)
    /\ UNCHANGED <<query_blank, search_first, sys_search, valid_urls,
                   scraped_contents, sys_raised>>
    /\ UNCHANGED otherVars

StageMessages == {"boom", "out of memory"}

\* the stage the call is in raises an Exception
StageRaises(message) ==
    /\ sys_pc \in {"search", "scrape", "index", "retrieve"}
    /\ Caught(sys_pc, message)
    /\ UNCHANGED <<query_blank, search_first, sys_search, valid_urls,
                   scraped_contents>>
    /\ UNCHANGED otherVars

SystemNext ==
    \/ Called
    \/ \E response \in SystemSearchResponses : SearchStage(response)
    \/ \E kinds \in [1..Len(valid_urls) -> PageKinds] : ScrapeStage(kinds)
    \/ IndexStage
    \/ RetrieveStage
    \/ \E message \in StageMessages : StageRaises(message)

(***************************************************************************)
(* fallback_search of Taran_Mohta/Assignment_1/WebSearchAgents.py and of   *)
(* Vivek_Chandwani/Assignment_1/search_agent.py.  The client of a provider *)
(* raises, or gives a list of items; an item is the number of its url, 0   *)
(* for an item without a url.                                              *)
(***************************************************************************)
Variants == {"Taran_Mohta", "Vivek_Chandwani"}

\* every provider first for both variants
Providers_SerpFirst(variant) == <<"SerpAPI", "Tavily", "DuckDuckGo">>

\* the order of the calls in the body of fallback_search
Providers(variant) ==
    IF variant = "Taran_Mohta" THEN <<"SerpAPI", "Tavily", "DuckDuckGo">>
    ELSE <<"Tavily", "SerpAPI", "DuckDuckGo">>

\* tavily / serp are None without their API key; Vivek_Chandwani constructs
\* its clients unconditionally
KeyedProviders == {"SerpAPI", "Tavily"}

RawItems == 0..MaxFallbackUrls

RawAnswers ==
    {[raises |-> TRUE, items |-> <<>>]}
    \cup {[raises |-> FALSE, items |-> s] : s \in SeqsUpTo(RawItems, MaxFallbackItems)}

ProviderResponse(success, results, error, agent_used) ==
    [success |-> success, results |-> results, error |-> error,
     agent_used |-> agent_used]

\* run_serp_search, run_tavily_search, run_duckduckgo_search: the items with
\* a url become results; a missing client and an exception become a failure
run_search(provider, configured, raw) ==
    IF provider \in KeyedProviders /\ provider \notin configured
    THEN ProviderResponse(FALSE, <<>>, "key not configured", "none")
    ELSE IF raw.raises
    THEN ProviderResponse(FALSE, <<>>, "exception", "none")
    ELSE ProviderResponse(TRUE, SelectSeq(raw.items, LAMBDA r : r # 0), "none",
                          provider)

\* the "agent" names in the dict of Vivek_Chandwani's fallback_search
AgentLabel(provider) ==
    IF provider = "Tavily" THEN "Tavily Search"
    ELSE IF provider = "SerpAPI" THEN "SERP Search"
    ELSE "DuckDuckGo Search"

\* safe_tavily_search, safe_serp_search, safe_duckduckgo_search: every item
\* becomes a result, with or without a url
safe_search(provider, raw) ==
    IF raw.raises
    THEN ProviderResponse(FALSE, <<>>, "exception", "none")
    ELSE ProviderResponse(TRUE, raw.items, "none", AgentLabel(provider))

ProviderCall(variant, provider, configured, raw) ==
    IF variant = "Taran_Mohta" THEN run_search(provider, configured, raw)
    ELSE safe_search(provider, raw)

\* the dicts fallback_search returns; a dict without the "error" key has
\* error = "none", one without the "agent" key has agent = "none"
FoundDict(agent, final_result) ==
    [error |-> "none", agent |-> agent, final_result |-> final_result]

AllFailedDict(variant) ==
    [error |-> IF variant = "Taran_Mohta" THEN "All search agents failed"
               ELSE "All searches failed",
     agent |-> "none", final_result |-> <<>>]

\* fallback_search has not returned
NoFallbackResult == [error |-> "none", agent |-> "none", final_result |-> <<>>]

FallbackInit ==
    /\ fb_variant \in Variants
    /\ fb_configured \in SUBSET KeyedProviders
    /\ fb_variant = "Vivek_Chandwani" => fb_configured = KeyedProviders
    /\ fb_pc = "running"
    /\ fb_called = <<>>
    /\ fb_raws = <<>>
    /\ fb_responses = <<>>
    /\ fb_result = NoFallbackResult

FallbackIdle ==
    /\ fb_variant = "none"
    /\ fb_configured = {}
    /\ fb_pc = "idle"
    /\ fb_called = <<>>
    /\ fb_raws = <<>>
    /\ fb_responses = <<>>
    /\ fb_result = NoFallbackResult

\* result = run_..._search(query); if result.success: return {...}; after
\* the third provider: return {"error": ..., "final_result": []}
TryProvider(raw) ==
    /\ fb_pc = "running"
    /\ LET i == Len(fb_responses) + 1
           provider == Providers(fb_variant)[i]
           result == ProviderCall(fb_variant, provider, fb_configured, raw)
       IN /\ fb_called' = Append(fb_called, provider)
          /\ fb_raws' = Append(fb_raws, raw)
          /\ fb_responses' = Append(fb_responses, result)
          /\ IF result.success
             THEN /\ fb_result' = FoundDict(result.agent_used, result.results)
                  /\ fb_pc' = "done"
             ELSE IF i = Len(Providers(fb_variant))
             THEN /\ fb_result' = AllFailedDict(fb_variant)
                  /\ fb_pc' = "done"
             ELSE UNCHANGED <<fb_result, fb_pc>>
    /\ UNCHANGED <<fb_variant, fb_configured>>
    /\ UNCHANGED <<searchVars, scrapeVars, ragVars, chunkVars, keywordVars,
                   systemVars, httpVars, backendVars>>

FallbackNext == \E raw \in RawAnswers : TryProvider(raw)

(***************************************************************************)
(* _http of Soham_Mukherjee/Assignment_01/Task-01/duckduckgo.py.  Times    *)
(* are in tenths of a second.                                              *)
(***************************************************************************)
\* def _http(url, params, retries: int = 3, timeout: int = 8)
DefaultHttpRetries == 3

\* how one pass of the loop ends: r.json() is returned, or an exception is
\* caught: netfail for a status >= 500, HTTPError from raise_for_status, an
\* exception of requests.get, a ValueError of r.json()
AttemptOutcomes == {"ok", "http5xx", "http4xx", "timeout", "badjson"}

\* random.random(), a value in [0, 1)
Jitters == {0, 5, 9}

\* wait = min(2 ** i, 8) + random.random()
Wait(i, jitter) == 10 * Min(Pow2(i), 8) + jitter

HttpInit ==
    /\ http_retries \in 0..MaxHttpRetries
    /\ http_pc = "attempting"
    /\ http_outcomes = <<>>
    /\ http_waits = <<>>
    /\ http_result = "none"

HttpIdle ==
    /\ http_retries = 0
    /\ http_pc = "idle"
    /\ http_outcomes = <<>>
    /\ http_waits = <<>>
    /\ http_result = "none"

\* one pass of for i in range(retries), up to the return or to time.sleep
HttpAttempt(outcome, jitter) ==
    /\ http_pc = "attempting"
    /\ Len(http_outcomes) < http_retries
    /\ LET i == Len(http_outcomes)
       IN /\ http_outcomes' = Append(http_outcomes, outcome)
          /\ IF outcome = "ok"
             THEN /\ http_pc' = "returned"
                  /\ http_result' = "body"
                  /\ UNCHANGED http_waits
             ELSE /\ http_pc' = "sleeping"
                  /\ http_waits' = Append(http_waits, Wait(i, jitter))
                  /\ UNCHANGED http_result
    /\ UNCHANGED http_retries
    /\ UNCHANGED <<searchVars, scrapeVars, ragVars, chunkVars, keywordVars,
                   systemVars, fallbackVars, backendVars>>

\* time.sleep(wait) returns: the loop goes on
HttpWakes ==
    /\ http_pc = "sleeping"
    /\ http_pc' = "attempting"
    /\ UNCHANGED <<http_retries, http_outcomes, http_waits, http_result>>
    /\ UNCHANGED <<searchVars, scrapeVars, ragVars, chunkVars, keywordVars,
                   systemVars, fallbackVars, backendVars>>

\* the loop is over: raise netfail(f"failed after retries: {last}")
HttpRaises ==
    /\ http_pc = "attempting"
    /\ Len(http_outcomes) >= http_retries
    /\ http_pc' = "raised"
    /\ http_result' = "netfail"
    /\ UNCHANGED <<http_retries, http_outcomes, http_waits>>
    /\ UNCHANGED <<searchVars, scrapeVars, ragVars, chunkVars, keywordVars,
                   systemVars, fallbackVars, backendVars>>

HttpNext ==
    \/ \E outcome \in AttemptOutcomes, jitter \in Jitters : HttpAttempt(outcome, jitter)
    \/ HttpWakes
    \/ HttpRaises

(***************************************************************************)
(* search_agents.py: the search method of one backend.  The body of an     *)
(* answer parses (as HTML, as JSON) or does not; a body that parses holds  *)
(* a list of items, each with a title and a link, either of which may be   *)
(* empty.                                                                  *)
(***************************************************************************)
BackendSources == {"duckduckgo", "wikipedia", "serpapi_google"}

\* 200, a status that is not 200, and 0 for a session.get that raised
Statuses == {200, 503, 0}

\* "/l" is a link that starts with "/"
BackendItems == [title : {"", "t"}, link : {"", "/l", "a", "b"}]

Bodies ==
    {[parses |-> FALSE, items |-> <<>>]}
    \cup {[parses |-> TRUE, items |-> s] : s \in SeqsUpTo(BackendItems, MaxBackendItems)}

\* result_links[:10]
DuckDuckGoLinks == 10

\* _parse_duckduckgo_results: an exception of the parser gives []; a link
\* becomes a result if title and url and not url.startswith('/')
parse_duckduckgo_results(body) ==
    IF ~body.parses THEN <<>>
    ELSE LET kept == SelectSeq(Take(body.items, DuckDuckGoLinks),
                               LAMBDA x : x.title # "" /\ x.link # "" /\ x.link # "/l")
         IN [i \in 1..Len(kept) |-> SearchResult(kept[i].link, 0, "duckduckgo")]

\* f"https://en.wikipedia.org/wiki/{quote_plus(title.replace(' ', '_'))}"
WikipediaUrl(title) == <<"https://en.wikipedia.org/wiki/", title>>

\* the loop over data['query']['search']: every item becomes a result
WikipediaResults(items) ==
    [i \in 1..Len(items) |-> SearchResult(WikipediaUrl(items[i].title), 0, "wikipedia")]

\* the loop over data.get("organic_results", []): if title and url
SerpApiResults(items) ==
    LET kept == SelectSeq(items, LAMBDA x : x.title # "" /\ x.link # "")
    IN [i \in 1..Len(kept) |-> SearchResult(kept[i].link, 0, "serpapi_google")]

\* except Exception as e: return SearchResponse(success=False, results=[], ...)
FailedResponse(source) == SearchResponse(FALSE, <<>>, source, 0)

\* DuckDuckGoSearchAgent.search
DuckDuckGoSearch(status, body, n) ==
    IF status = 200
    THEN LET results == parse_duckduckgo_results(body)
         IN SearchResponse(TRUE, Take(results, n), "duckduckgo", Len(results))
    ELSE FailedResponse("duckduckgo")

\* WikipediaSearchAgent.search: await response.json() raises on a body that
\* is not JSON, inside the try
WikipediaSearch(status, body) ==
    IF status = 200 /\ body.parses
    THEN LET results == WikipediaResults(body.items)
         IN SearchResponse(TRUE, results, "wikipedia", Len(results))
    ELSE FailedResponse("wikipedia")

\* SerpApiSearchAgent.search
SerpApiSearch(status, body) ==
    IF status = 200 /\ body.parses
    THEN LET results == SerpApiResults(body.items)
         IN SearchResponse(TRUE, results, "serpapi_google", Len(results))
    ELSE FailedResponse("serpapi_google")

BackendInit ==
    /\ be_source \in BackendSources
    /\ be_status \in Statuses
    /\ be_body \in Bodies
    /\ be_num_results \in {1, 10}
    /\ be_response = NoResponse

BackendIdle ==
    /\ be_source = "none"
    /\ be_status = 0
    /\ be_body = [parses |-> FALSE, items |-> <<>>]
    /\ be_num_results = 0
    /\ be_response = NoResponse

\* await agent.search(query, num_results)
BackendSearch ==
    /\ be_response = NoResponse
    /\ be_response' =
           IF be_source = "duckduckgo"
           THEN DuckDuckGoSearch(be_status, be_body, be_num_results)
           ELSE IF be_source = "wikipedia" THEN WikipediaSearch(be_status, be_body)
           ELSE SerpApiSearch(be_status, be_body)
    /\ UNCHANGED <<be_source, be_status, be_body, be_num_results>>
    /\ UNCHANGED <<searchVars, scrapeVars, ragVars, chunkVars, keywordVars,
                   systemVars, fallbackVars, httpVars>>

BackendNext == BackendSearch

InitFallback ==
    FallbackInit /\ SearchIdle /\ ScrapeIdle /\ RagIdle /\ ChunkIdle /\ KeywordIdle
    /\ SystemIdle /\ HttpIdle /\ BackendIdle

SpecFallback == InitFallback /\ [][FallbackNext]_vars

InitHttp ==
    HttpInit /\ SearchIdle /\ ScrapeIdle /\ RagIdle /\ ChunkIdle /\ KeywordIdle
    /\ SystemIdle /\ FallbackIdle /\ BackendIdle

SpecHttp == InitHttp /\ [][HttpNext]_vars

InitBackend ==
    BackendInit /\ SearchIdle /\ ScrapeIdle /\ RagIdle /\ ChunkIdle /\ KeywordIdle
    /\ SystemIdle /\ FallbackIdle /\ HttpIdle

SpecBackend == InitBackend /\ [][BackendNext]_vars

StandaloneIdle == FallbackIdle /\ HttpIdle /\ BackendIdle

(***************************************************************************)
(* The specifications.                                                     *)
(***************************************************************************)
InitSearch ==
    SearchInit /\ ScrapeIdle /\ RagIdle /\ ChunkIdle /\ KeywordIdle /\ SystemIdle
    /\ StandaloneIdle

SpecSearch == InitSearch /\ [][SearchNext]_vars

InitScrapeUrl ==
    ScrapeUrlInit /\ SearchIdle /\ RagIdle /\ ChunkIdle /\ KeywordIdle /\ SystemIdle
    /\ StandaloneIdle

SpecScrapeUrl == InitScrapeUrl /\ [][ScrapeNext]_vars

InitScrapeMany ==
    ScrapeManyInit /\ SearchIdle /\ RagIdle /\ ChunkIdle /\ KeywordIdle /\ SystemIdle
    /\ StandaloneIdle

SpecScrapeMany == InitScrapeMany /\ [][ScrapeNext]_vars

InitRag ==
    RagInit /\ SearchIdle /\ ScrapeIdle /\ ChunkIdle /\ KeywordIdle /\ SystemIdle
    /\ StandaloneIdle

SpecRag == InitRag /\ [][RagNext]_vars

InitQuery ==
    QueryInit /\ SearchIdle /\ ScrapeIdle /\ ChunkIdle /\ KeywordIdle /\ SystemIdle
    /\ StandaloneIdle

SpecQuery == InitQuery /\ [][QueryNext]_vars

SpecPersist == InitQuery /\ [][PersistNext]_vars

InitKeyword ==
    KeywordInit /\ SearchIdle /\ ScrapeIdle /\ RagIdle /\ ChunkIdle /\ SystemIdle
    /\ StandaloneIdle

SpecKeyword == InitKeyword /\ [][KeywordNext]_vars

InitSystem ==
    SystemInit /\ SearchIdle /\ ScrapeIdle /\ RagIdle /\ ChunkIdle /\ KeywordIdle
    /\ StandaloneIdle

SpecSystem == InitSystem /\ [][SystemNext]_vars

InitChunk ==
    ChunkInit /\ SearchIdle /\ ScrapeIdle /\ KeywordIdle /\ SystemIdle
    /\ StandaloneIdle

SpecChunk == InitChunk /\ [][ChunkNext]_vars

(***************************************************************************)
(* Claims about MultiSearchAgent.search.                                   *)
(***************************************************************************)
Returned == search_response # NotReturned

Urls(results) == {r.url : r \in Range(results)}

\* the urls that the successful backends returned
SuccessfulUrls ==
    UNION {Urls(responses[a].results) : a \in {b \in Agents : responses[b].success}}

\* C2: no two entries of the results of a returned SearchResponse have the
\* same url.
C2_UniqueUrls ==
    Returned =>
        \A i, j \in 1..Len(search_response.results) :
            i # j => search_response.results[i].url # search_response.results[j].url

\* two successful backends returned the same url and the merged response has
\* several results
C2_Witness ==
    /\ Returned
    /\ Len(search_response.results) >= 2
    /\ \E a, b \in Agents :
           /\ a # b
           /\ responses[a].success /\ responses[b].success
           /\ Urls(responses[a].results) \cap Urls(responses[b].results) # {}

UrlSeq(results) == [i \in 1..Len(results) |-> results[i].url]

\* C3: when the successful backends returned at most num_results different
\* urls, the merged results hold each of them exactly once; two backends
\* returning [a, b] and [b, c] with num_results = 10 give 3 results with the
\* urls {a, b, c}.
C3_UnionOnce ==
    Returned =>
        /\ Cardinality(SuccessfulUrls) <= num_results =>
               /\ Urls(search_response.results) = SuccessfulUrls
               /\ Len(search_response.results) = Cardinality(SuccessfulUrls)
        /\ ( /\ Len(search_agents) = 2
             /\ num_results = 10
             /\ responses[1].success /\ UrlSeq(responses[1].results) = <<"a", "b">>
             /\ responses[2].success /\ UrlSeq(responses[2].results) = <<"b", "c">> )
           => /\ Len(search_response.results) = 3
              /\ Urls(search_response.results) = {"a", "b", "c"}

\* the scenario: backends returning [a, b] and [b, c], num_results = 10
C3_Witness ==
    /\ Returned
    /\ Len(search_agents) = 2
    /\ num_results = 10
    /\ responses[1].success /\ UrlSeq(responses[1].results) = <<"a", "b">>
    /\ responses[2].success /\ UrlSeq(responses[2].results) = <<"b", "c">>

\* C4: when search returns, every backend was called exactly once, also the
\* ones that raised or returned success=false; the merged results come from
\* the successful backends only, and every url of a successful backend was
\* merged (total_results counts them; the results hold them up to num_results).
C4_FailureIsolated ==
    Returned =>
        /\ \A a \in Agents : calls[a] = 1
        /\ \A r \in Range(search_response.results) :
               \E a \in Agents :
                   /\ responses[a].success
                   /\ r \in Range(responses[a].results)
        /\ search_response.total_results = Cardinality(SuccessfulUrls)
        /\ Urls(search_response.results) \subseteq SuccessfulUrls
        /\ Len(search_response.results) =
               Min(num_results, Cardinality(SuccessfulUrls))

\* one backend raised, another returned success=false with a result, a third
\* or the same search still merged the results of a successful one
C4_Witness ==
    /\ Returned
    /\ \E a, b \in Agents :
           /\ a # b
           /\ raised[a] \/ (~responses[a].success /\ responses[a].results # <<>>)
           /\ responses[b].success
           /\ responses[b].results # <<>>
           /\ Urls(search_response.results) \cap Urls(responses[b].results) # {}

\* C5: never more than max_concurrent backend calls are in progress; and as
\* long as some backend has not been called, a call is in progress (it ends:
\* every backend gives its request a timeout) or a waiting task can start its
\* call, so that no backend waits for ever.
C5_ConcurrencyCap ==
    /\ Cardinality(InProgress) <= max_concurrent
    /\ semaphore = max_concurrent - Cardinality(InProgress)
    /\ (\E a \in Agents : calls[a] = 0) =>
           \/ InProgress # {}
           \/ ENABLED (\E a \in Agents : StartCall(a))

\* more backends than the cap: the cap is reached while a task still waits
C5_Witness ==
    /\ Len(search_agents) > max_concurrent
    /\ Cardinality(InProgress) = max_concurrent
    /\ \E a \in Agents : task_pc[a] = "pending"

\* C6: the success flag of the returned response is true exactly when some
\* backend returned success=true with at least one result.
C6_SuccessFlag ==
    Returned =>
        (search_response.success <=>
            \E a \in Agents : responses[a].success /\ Len(responses[a].results) >= 1)

\* a backend succeeded with an empty list, no backend gave a result, and the
\* search is not a success
C6_Witness ==
    /\ Returned
    /\ ~search_response.success
    /\ \E a \in Agents : responses[a].success /\ responses[a].results = <<>>


(***************************************************************************)
(* Claims about ImprovedRAGAgent.                                          *)
(***************************************************************************)
\* C1: in embedding mode the embedding matrix has a row per chunk of
\* document_chunks, and row i is the embedding of chunk i.
C1_IndexAligned ==
    use_embeddings =>
        /\ Len(embeddings.rows) = Len(document_chunks)
        /\ \A i \in 1..Len(document_chunks) :
               embeddings.rows[i] = Embed(document_chunks[i].content)

WordCounts(chunks) == [i \in 1..Len(chunks) |-> chunks[i].word_count]

\* the 1200-word document of the scenario has been chunked with
\* chunk_size=500, chunk_overlap=100
C10_Scenario ==
    /\ Len(text) = 1200
    /\ chunk_size = 500
    /\ chunk_overlap = 100
    /\ chunked # NotChunked

\* C10 as stated: the 1200-word document gives chunks of 500, 500 and 300
\* words.
C10_WordCounts300 == C10_Scenario => WordCounts(chunked) = <<500, 500, 300>>

\* C10, amended: the 1200-word document gives 3 chunks of 500, 500 and 400
\* words (the words 0-499, 400-899 and 800-1199).
C10_WordCounts400 ==
    C10_Scenario =>
        /\ Len(chunked) = 3
        /\ WordCounts(chunked) = <<500, 500, 400>>
        /\ chunked[1].content = SubSeq(text, 1, 500)
        /\ chunked[2].content = SubSeq(text, 401, 900)
        /\ chunked[3].content = SubSeq(text, 801, 1200)

C10_Witness == C10_Scenario /\ Len(chunked) = 3

\* the words two chunks have in common (the words of text are all different)
SharedWords(c, d) == Cardinality(Range(c.content) \cap Range(d.content))

\* C11: with chunk_size=500 and chunk_overlap=50 the chunks of a document of
\* any length have the indices 0, 1, 2, ..., every chunk but the last has
\* exactly 500 words, and every two successive chunks share exactly 50 words.
C11_Contiguity ==
    (chunk_size = 500 /\ chunk_overlap = 50 /\ chunked # NotChunked) =>
        /\ \A k \in 1..Len(chunked) : chunked[k].chunk_index = k - 1
        /\ \A k \in 1..(Len(chunked) - 1) :
               /\ chunked[k].word_count = 500
               /\ SharedWords(chunked[k], chunked[k + 1]) = 50

(***************************************************************************)
(* Claims about WebScraperAgent.                                           *)
(***************************************************************************)
\* C7: a scrape_url call with max_retries = 3 of a url that answers HTTP 503
\* to every request ends after exactly 3 requests, has slept 2^attempt
\* seconds between consecutive attempts (1 s, then 2 s), and returns
\* success=false.
C7_Backoff503 ==
    \A t \in Tasks :
        ( /\ server[t] = "http503"
          /\ max_retries = DefaultMaxRetries
          /\ tasks[t].pc = "done" )
        => /\ tasks[t].requests = DefaultMaxRetries
           /\ tasks[t].sleeps = <<Pow2(0), Pow2(1)>>
           /\ ~scrape_results[t].success

\* C8: the first requests of any two scrape_url calls on one scraper are at
\* least rate_limit_delay apart.
C8_RateLimited ==
    \A i, j \in 1..Len(fetch_starts) :
        i < j => fetch_starts[j] - fetch_starts[i] >= RateLimitDelay

Scraped == scraped # NotScraped

\* C9: scrape_multiple_urls returns one ScrapedContent per url, the i-th one
\* for urls[i].
C9_InputOrder ==
    Scraped =>
        /\ Len(scraped) = Len(urls)
        /\ \A i \in 1..Len(urls) :
               /\ scraped[i].url = urls[i]
               /\ scraped[i] = scrape_results[i]

\* the second call returned before the first, one of them failed and the
\* other succeeded
C9_Witness ==
    /\ Scraped
    /\ Len(urls) >= 2
    /\ completion_order[1] # 1
    /\ \E i, j \in 1..Len(scraped) : scraped[i].success /\ ~scraped[j].success

\* C12: a chunk_overlap >= chunk_size is rejected when the agent is
\* constructed, so an agent with such a configuration never raises later
\* while indexing and never silently makes no chunk of a document that
\* passes the filter.
C12_FailFast ==
    chunk_overlap >= chunk_size =>
        /\ rag_error # "ValueError"
        /\ ~(indexable_given /\ rag_error = "none" /\ document_chunks = <<>>)

\* chunk i, row i of the embedding matrix and row i of the search structure
\* belong together, for every i, and there is nothing else
Aligned ==
    /\ Len(embeddings.rows) = Len(document_chunks)
    /\ Len(index.rows) = Len(document_chunks)
    /\ \A i \in 1..Len(document_chunks) :
           /\ embeddings.rows[i] = Embed(document_chunks[i].content)
           /\ index.rows[i] = NormalizeL2(embeddings.rows[i])

\* C13: in embedding mode, once load_index has loaded a saved index, the
\* chunks, the embedding matrix and the search structure have equal length
\* and matching positions, and stay so through later index_documents and
\* query calls.
C13_LoadAligned == (use_embeddings /\ loaded) => Aligned

(***************************************************************************)
(* Claims about ImprovedRAGAgent.query.                                    *)
(***************************************************************************)
\* C14: a query on an agent without chunks returns, without raising, the
\* RAGResult with no chunks, the fixed "no indexed documents" response,
\* confidence 0.0 and zero times, every time it is asked, and leaves the
\* agent empty.
C14_EmptyQuery ==
    [][\A query \in Queries, top_k \in TopKs :
          (document_chunks = <<>> /\ Query(query, top_k)) =>
              /\ rag_error' = "none"
              /\ rag_result' = RAGResult(query, <<>>,
                                         "No indexed documents available.",
                                         Zero, {}, 0, 0)
              /\ document_chunks' = <<>>
              /\ embeddings' = embeddings
              /\ index' = index]_vars

\* a query on the empty agent has returned
C14_Witness ==
    /\ document_chunks = <<>>
    /\ rag_result # NoResult
    /\ rag_result.query = <<2, 3>>
    /\ rag_result.generated_response = "No indexed documents available."

\* the Jaccard index of the lower-cased word sets of a query and a chunk
Jaccard(query, chunk) ==
    LET Q == {Lower(w) : w \in Range(query)}
        C == {Lower(w) : w \in Range(chunk.content)}
    IN IF Q \cup C = {} THEN Zero
       ELSE Frac(Cardinality(Q \cap C), Cardinality(Q \cup C))

\* the scores of a list of chunks do not increase
NonIncreasing(chunks) ==
    \A j \in 1..(Len(chunks) - 1) :
        FracLeq(chunks[j + 1].similarity_score, chunks[j].similarity_score)

\* C15: in keyword-only mode query returns the chunks with a Jaccard score
\* > 0, each with its score, in non-increasing order of score, cut to the
\* top_k best: no chunk of score 0 is returned and no chunk with a score
\* above a returned one is left out.
C15_KeywordRetrieval ==
    [][\A query \in Queries, top_k \in TopKs :
          (~use_embeddings /\ Query(query, top_k)) =>
              LET returned == rag_result'.relevant_chunks
                  positive == {i \in 1..Len(document_chunks) :
                                  FracLess(Zero, Jaccard(query, document_chunks[i]))}
              IN /\ Len(returned) = Min(top_k, Cardinality(positive))
                 /\ \A j \in 1..Len(returned) :
                        /\ returned[j] \in Range(document_chunks')
                        /\ returned[j].similarity_score = Jaccard(query, returned[j])
                        /\ FracLess(Zero, returned[j].similarity_score)
                 /\ NonIncreasing(returned)
                 /\ \A j \in 1..Len(returned) :
                        Cardinality({i \in positive :
                            FracLess(returned[j].similarity_score,
                                     Jaccard(query, document_chunks[i]))})
                        = Cardinality({l \in 1..Len(returned) :
                            FracLess(returned[j].similarity_score,
                                     returned[l].similarity_score)})]_vars

\* a keyword query has left out a chunk of score 0 and, cut to top_k = 1,
\* returned the better of two chunks with different scores > 0, which is not
\* the first of them in document_chunks
C15_Witness ==
    /\ ~use_embeddings
    /\ rag_result # NoResult
    /\ Len(rag_result.relevant_chunks) = 1
    /\ \E i \in 1..Len(document_chunks) :
           Jaccard(rag_result.query, document_chunks[i]) = Zero
    /\ \E i, l \in 1..Len(document_chunks) :
           /\ i < l
           /\ FracLess(Zero, Jaccard(rag_result.query, document_chunks[i]))
           /\ FracLess(Jaccard(rag_result.query, document_chunks[i]),
                       Jaccard(rag_result.query, document_chunks[l]))
           /\ rag_result.relevant_chunks[1] = document_chunks[l]

\* the injective maps from the positions of a list into a set
Injections(n, S) ==
    {f \in [1..n -> S] : \A a, b \in 1..n : a # b => f[a] # f[b]}

\* C16: in embedding mode query takes the min(3 * top_k, number of chunks)
\* chunks nearest to the query by cosine similarity as candidates, gives
\* each 0.7 * cosine + 0.3 * Jaccard, and returns the top_k candidates of
\* the highest blended score, in non-increasing order of it.
C16_EmbeddingRetrieval ==
    [][\A query \in Queries, top_k \in TopKs :
          (use_embeddings /\ document_chunks # <<>> /\ Query(query, top_k)) =>
              LET n == Len(document_chunks)
                  cosine(i) == Cosine(PreprocessWords(query),
                                      document_chunks[i].content)
                  blended(i) == CombinedScore(cosine(i),
                                              Jaccard(query, document_chunks[i]))
                  returned == rag_result'.relevant_chunks
              IN /\ rag_error' = "none"
                 /\ \E candidates \in SUBSET (1..n) :
                        /\ Cardinality(candidates) = Min(3 * top_k, n)
                        /\ \A i \in candidates, l \in (1..n) \ candidates :
                               FracLeq(cosine(l), cosine(i))
                        /\ Len(returned) = Min(top_k, Cardinality(candidates))
                        /\ \E f \in Injections(Len(returned), candidates) :
                               /\ \A j \in 1..Len(returned) :
                                      /\ returned[j] = document_chunks'[f[j]]
                                      /\ returned[j].similarity_score = blended(f[j])
                               /\ \A j \in 1..Len(returned),
                                     l \in candidates \ Range(f) :
                                      FracLeq(blended(l), blended(f[j]))
                 /\ NonIncreasing(returned)]_vars

\* C18: the confidence_score of every RAGResult query returns, in keyword
\* mode and in embedding mode, lies in [0, 1] and is the mean of the scores
\* of the returned chunks, 0.0 when none is returned.
C18_Confidence ==
    [][\A query \in Queries, top_k \in TopKs :
          (Query(query, top_k) /\ rag_error' = "none") =>
              LET returned == rag_result'.relevant_chunks
                  confidence == rag_result'.confidence_score
              IN /\ FracLeq(Zero, confidence)
                 /\ FracLeq(confidence, One)
                 /\ confidence = MeanScore(returned)
                 /\ returned = <<>> => confidence = Zero]_vars

\* C17: the keyword similarity of a query and a chunk is the Jaccard index
\* of their lower-cased word sets; it is 2/4 for the query "artificial
\* intelligence" and the chunk "artificial general intelligence is", and 0
\* for a query without words.
C17_Jaccard ==
    kw_score # NoScore =>
        /\ kw_score = Jaccard(kw_query, kw_chunk)
        /\ (kw_query = <<1, 2>> /\ kw_chunk.content = <<1, 3, 2, 4>>) =>
               kw_score = Frac(2, 4)
        /\ kw_query = <<>> => kw_score = Zero

\* the scenario has been scored
C17_Witness ==
    /\ kw_query = <<1, 2>>
    /\ kw_chunk.content = <<1, 3, 2, 4>>
    /\ kw_score = Frac(1, 2)

(***************************************************************************)
(* Claims about RobustWebSearchRAGSystem.query_with_rag.                   *)
(***************************************************************************)
\* C19: query_with_rag never raises: whatever a stage does, the call ends
\* by returning a dict, and an exception of a stage comes back as the
\* error "System error: <message>".
C19_NeverRaises ==
    /\ sys_pc # "raised"
    /\ sys_pc = "done" => sys_result # NoDict
    /\ sys_raised # "none" =>
           /\ sys_pc = "done"
           /\ sys_result = ErrorDict(<<"System error: ", sys_raised>>)

\* the index stage raised after search and scrape went well
C19_Witness ==
    /\ sys_stages = <<"search", "scrape", "index">>
    /\ sys_raised = "out of memory"
    /\ sys_pc = "done"

\* the scrape stage has run and left no page that succeeded with more than
\* 100 characters
NothingScraped ==
    /\ "scrape" \in Range(sys_stages)
    /\ sys_raised = "none"
    /\ SuccessfulContents(scraped_contents) = <<>>

\* C20: with search_first, a stage that yields nothing usable (no search
\* result, no http/https url, no page scraped with more than 100
\* characters) ends the call with an error dict, and no later stage runs.
C20_ShortCircuit ==
    search_first =>
        /\ (sys_search # NotReturned /\ sys_search.results = <<>>) =>
               /\ sys_stages = <<"search">>
               /\ sys_result = ErrorDict(<<"Search failed or returned no results">>)
        /\ (sys_search # NotReturned /\ sys_search.results # <<>>
               /\ valid_urls = <<>>) =>
               /\ sys_stages = <<"search">>
               /\ sys_result = ErrorDict(<<"No valid URLs found to scrape">>)
        /\ NothingScraped =>
               /\ "index" \notin Range(sys_stages)
               /\ "retrieve" \notin Range(sys_stages)
               /\ sys_pc = "done" => ~sys_result.success

(***************************************************************************)
(* Further claims about WebScraperAgent.                                   *)
(***************************************************************************)
\* C22: in scrape_url an attempt answered HTTP 200 from which no text is
\* extracted is a failed attempt like any other: a url that always answers so
\* is fetched max_retries times and the call returns success=false with
\* empty content and text_length = 0; no ScrapedContent with success=true
\* has empty content.
C22_EmptyExtraction ==
    \A t \in Tasks :
        tasks[t].pc = "done" =>
            /\ server[t] = "empty" =>
                   /\ tasks[t].requests = max_retries
                   /\ scrape_results[t] = Failure(urls[t], scrape_results[t].error_message)
            /\ scrape_results[t].success => scrape_results[t].content # ""

(***************************************************************************)
(* Further claims about ImprovedRAGAgent.index_documents.                  *)
(***************************************************************************)
\* the documents the claim has indexed: success=true and at least 100
\* characters of content
Claimed(doc) == doc.success /\ doc.chars >= MinContentChars

\* C23: index_documents adds chunks for a document exactly when it has
\* success=true and content of at least 100 characters; a document with
\* success=false or shorter content adds no chunk, and a call with only such
\* documents leaves the chunk collection and the embeddings unchanged.
\* Stated for an agent whose chunk_overlap is below its chunk_size.
C23_IndexFilter ==
    [][\A documents \in Batches :
          (chunk_overlap < chunk_size /\ IndexDocuments(documents)) =>
              LET added == SubSeq(document_chunks', Len(document_chunks) + 1,
                                  Len(document_chunks'))
                  urls_added == {added[k].source_url : k \in 1..Len(added)}
              IN /\ Len(document_chunks') >= Len(document_chunks)
                 /\ SubSeq(document_chunks', 1, Len(document_chunks)) = document_chunks
                 /\ \A u \in {"a", "b"} :
                        u \in urls_added <=>
                            \E i \in 1..Len(documents) :
                                documents[i].url = u /\ Claimed(documents[i])
                 /\ (\A i \in 1..Len(documents) : ~Claimed(documents[i])) =>
                        /\ document_chunks' = document_chunks
                        /\ embeddings' = embeddings
                        /\ index' = index]_vars

\* the chunk_index values of the chunks of one source url, in collection order
RECURSIVE IndicesOf(_, _)
IndicesOf(chunks, source_url) ==
    IF chunks = <<>> THEN <<>>
    ELSE (IF Head(chunks).source_url = source_url
          THEN <<Head(chunks).chunk_index>> ELSE <<>>)
         \o IndicesOf(Tail(chunks), source_url)

\* C24: after any sequence of index_documents calls, also calls that index a
\* url again, the chunks of each source url have the chunk_index values
\* 0, 1, 2, ... in collection order: strictly increasing, without a gap, none
\* twice.
C24_GapFreeIndices ==
    \A u \in {"a", "b"} :
        LET indices == IndicesOf(document_chunks, u)
        IN indices = [k \in 1..Len(indices) |-> k - 1]

\* C28: when the embedding step of index_documents raises, the agent is left
\* as before the call: no new chunk remains in document_chunks, and the
\* chunks and the embeddings are still of equal length for the next call.
C28_EncodeRaisesRestores ==
    [][\A documents \in Batches :
          IndexDocumentsEncodeRaises(documents) =>
              /\ document_chunks' = document_chunks
              /\ embeddings' = embeddings
              /\ index' = index
              /\ (Len(document_chunks) = Len(embeddings.rows)
                     => Len(document_chunks') = Len(embeddings'.rows))]_vars

(***************************************************************************)
(* Further claims about MultiSearchAgent.search.                           *)
(***************************************************************************)
\* the backends that succeeded and returned the url
Producers(u) ==
    {a \in Agents : responses[a].success /\ u \in Urls(responses[a].results)}

\* the one of them that comes first in search_agents
FirstProducer(u) == CHOOSE a \in Producers(u) : \A b \in Producers(u) : a <= b

\* the first result with the url in a result list that has one
FirstWithUrl(results, u) ==
    LET at == CHOOSE i \in 1..Len(results) :
                  /\ results[i].url = u
                  /\ \A j \in 1..(i - 1) : results[j].url # u
    IN results[at]

\* C27: when several successful backends return one url, the result that
\* search keeps is the one of the backend that comes first in search_agents,
\* whatever order the backend calls end in; the returned response depends
\* only on the responses of the backends, taken in the order of search_agents.
C27_ListOrderWins ==
    Returned =>
        /\ \A i \in 1..Len(search_response.results) :
               LET r == search_response.results[i]
               IN /\ Producers(r.url) # {}
                  /\ r = FirstWithUrl(responses[FirstProducer(r.url)].results, r.url)
        /\ search_response = CombinedResponse(responses, num_results)

\* two successful backends returned the same url, the later one in
\* search_agents ended first, and the url is among the returned results
C27_Witness ==
    /\ Returned
    /\ \E a, b \in Agents :
           /\ a < b
           /\ search_completion[1] = b
           /\ \E u \in Urls(search_response.results) :
                  a \in Producers(u) /\ b \in Producers(u)

(***************************************************************************)
(* Further claims about ImprovedRAGAgent.query.                            *)
(***************************************************************************)
\* C30: a RAGResult that query returned is not changed by a later query or
\* index_documents call on the agent: the chunks of its relevant_chunks keep
\* the content, chunk_index and similarity_score they had when it was
\* returned, and the chunks of the collection keep their content, source_url
\* and chunk_index.
C30_ResultReadOnly ==
    [][/\ \A j \in 1..Len(result_refs) :
              LET returned == rag_result.relevant_chunks[j]
                  now_is == document_chunks'[result_refs[j]]
              IN /\ now_is.content = returned.content
                 /\ now_is.chunk_index = returned.chunk_index
                 /\ now_is.similarity_score = returned.similarity_score
       /\ Len(document_chunks') >= Len(document_chunks)
       /\ \A p \in 1..Len(document_chunks) :
              /\ document_chunks'[p].content = document_chunks[p].content
              /\ document_chunks'[p].source_url = document_chunks[p].source_url
              /\ document_chunks'[p].chunk_index = document_chunks[p].chunk_index]_vars

(***************************************************************************)
(* Claims about fallback_search.                                           *)
(***************************************************************************)
\* the order of the providers that the claim gives for each variant
ClaimedOrder ==
    IF fb_variant = "Taran_Mohta" THEN <<"SerpAPI", "Tavily", "DuckDuckGo">>
    ELSE <<"Tavily", "SerpAPI", "DuckDuckGo">>

\* C21: fallback_search tries its providers in a fixed order (SerpAPI,
\* Tavily, DuckDuckGo in Taran_Mohta; Tavily, SerpAPI, DuckDuckGo in
\* Vivek_Chandwani), calls a later provider only after every earlier one
\* failed, returns the results of the first provider that succeeds, returns an
\* error with an empty final_result only after all three failed, and never
\* raises: a client that raises is a provider that failed.
C21_FallbackOrder ==
    LET n == Len(fb_called)
    IN /\ fb_pc \in {"running", "done"}
       /\ n <= Len(ClaimedOrder)
       /\ fb_called = SubSeq(ClaimedOrder, 1, n)
       /\ \A i \in 1..(n - 1) : ~fb_responses[i].success
       /\ \A i \in 1..n : fb_raws[i].raises => ~fb_responses[i].success
       /\ fb_pc = "running" => /\ n < Len(ClaimedOrder)
                               /\ \A i \in 1..n : ~fb_responses[i].success
       /\ fb_pc = "done" =>
              /\ n >= 1
              /\ IF fb_responses[n].success
                 THEN /\ fb_result.error = "none"
                      /\ fb_result.final_result = fb_responses[n].results
                 ELSE /\ n = Len(ClaimedOrder)
                      /\ fb_result.error # "none"
                      /\ fb_result.final_result = <<>>

\* the first two providers failed, one of them by raising, and the third one
\* gave the results that were returned
C21_Witness ==
    /\ fb_pc = "done"
    /\ Len(fb_called) = 3
    /\ fb_raws[1].raises
    /\ fb_result.error = "none"
    /\ fb_result.final_result # <<>>

\* C29: fallback_search returns an empty final_result only when every
\* provider failed: a dict without the "error" key holds at least one
\* result, so a provider that succeeds with zero results does not end the
\* fallback chain.
C29_EmptyOnlyOnFailure ==
    (fb_pc = "done" /\ fb_result.error = "none") => fb_result.final_result # <<>>

(***************************************************************************)
(* Claims about _http.                                                     *)
(***************************************************************************)
Failed(outcome) == outcome # "ok"

\* C26: _http(url, params, retries=3) makes at most 3 attempts, returns the
\* body of the first successful attempt without a further attempt, waits
\* min(2^attempt, 8) seconds plus a jitter below 1 second between consecutive
\* attempts, and raises netfail once all attempts failed, without waiting
\* again after the last one.
C26_HttpRetries ==
    http_retries = DefaultHttpRetries =>
        LET n == Len(http_outcomes)
        IN /\ n <= 3
           /\ \A i \in 1..(n - 1) : Failed(http_outcomes[i])
           /\ http_pc = "returned" =>
                  /\ ~Failed(http_outcomes[n])
                  /\ http_result = "body"
                  /\ Len(http_waits) = n - 1
           /\ \A i \in 1..Len(http_waits) :
                  LET jitter == http_waits[i] - 10 * Min(Pow2(i - 1), 8)
                  IN 0 <= jitter /\ jitter < 10
           /\ http_pc = "raised" =>
                  /\ n = 3
                  /\ \A i \in 1..n : Failed(http_outcomes[i])
                  /\ http_result = "netfail"
                  /\ Len(http_waits) = n - 1

(***************************************************************************)
(* Claims about the search backends.                                       *)
(***************************************************************************)
\* C25: for each backend (DuckDuckGo, Wikipedia, SerpApi), when the transport
\* succeeded (HTTP 200) but the body cannot be parsed, search returns
\* success=true with an empty result list; success=false is returned only
\* when the transport itself failed.
C25_ParseFailureDegrades ==
    be_response # NoResponse =>
        /\ (be_status = 200 /\ ~be_body.parses) =>
               /\ be_response.success
               /\ be_response.results = <<>>
        /\ ~be_response.success => be_status # 200
====
